---- MODULE Spec2Model ----
(***************************************************************************)
(* Model of gitstylebackup (package pkg/gitstylebackup): a content-        *)
(* addressed, versioned backup repository.  The repository is a directory  *)
(* holding Version\ (manifests, one per version, written as <v>.tmp and    *)
(* renamed to <v>), Files\ (blobs named by the decimal rendering of the    *)
(* SHA-1 of their content) and InUse.txt (the advisory marker).            *)
(*                                                                         *)
(* The file system is the one the program is built for (Windows, see the   *)
(* build script and the "\\" separators of Restore): names compare without *)
(* case, and a file that another process holds open can be neither         *)
(* deleted nor renamed.                                                    *)
(***************************************************************************)
EXTENDS Integers, Sequences, FiniteSets, TLC

(***************************************************************************)
(* Bounds of the model.                                                    *)
(***************************************************************************)
\* Backups are not started once this many versions have been allocated.
MaxVersion == 2
\* Number of client processes that call the package concurrently in SpecConc.
NumProcs == 2

\* Bytes of the longest digest rendered on its own.
MaxLen == 3

\* Worker goroutines of one BackupFiles pipeline (the program starts 20).
NumWorkers == 2

Procs == 1..NumProcs

Workers == 1..NumWorkers

\* Source files the configuration includes; a path is its list of components.
Paths ==
    { <<"C:", "src", "f1">>, <<"C:", "src", "f2">>, <<"C:", "src", "restore_state.json">> }

\* The source file the user rewrites between backups.
Mutable == { <<"C:", "src", "f1">> }

\* File contents.
Contents == { "abc", "xyz" }

\* The content of a restore_state.json that an earlier restore left behind.
StaleJson == "{phase:completed}"

\* The directories a restore can stage in: the target itself, or another one.
StageDirs == { "T", "S" }

\* Encryption configurations of a call: no key, or the key derived from a password.
NoKey == "none"
Keys == { NoKey, "k1" }

\* The same with a second password, for calls made under different passwords.
Passwords == { NoKey, "k1", "k2" }

(***************************************************************************)
(* Partial functions (directories: name -> file).                          *)
(***************************************************************************)
Put(f, k, v) == [x \in (DOMAIN f) \cup {k} |-> IF x = k THEN v ELSE f[x]]

Drop(f, K) == [x \in (DOMAIN f) \ K |-> f[x]]

EmptyDir == [x \in {} |-> 0]

MaxOf(S) == IF S = {} THEN 0 ELSE CHOOSE m \in S : \A x \in S : x <= m

(***************************************************************************)
(* Content digest.                                                         *)
(***************************************************************************)
\* crypto/sha1 over the file bytes, cut to two bytes; injective on Contents
\* (no collisions), with first bytes on both sides of the fan-out range.
HashFile(c) ==
    CASE c = "abc" -> <<1, 23>>
      [] c = "xyz" -> <<12, 3>>
      [] OTHER     -> <<250, 7>>

\* fmt.Sprintf("%03d", v): three decimal digits, zero padded.
\* The same value without the zero padding, as "%d" renders it.
SprintfD(v) ==
    IF v >= 100 THEN << v \div 100, (v \div 10) % 10, v % 10 >>
    ELSE IF v >= 10 THEN << v \div 10, v % 10 >>
    ELSE << v >>

Sprintf03d(v) == << v \div 100, (v \div 10) % 10, v % 10 >>

\* HashToString: the concatenation of the three-digit renderings.
RECURSIVE HashToString(_)
HashToString(hash) ==
    IF hash = <<>> THEN <<>>
    ELSE Sprintf03d(Head(hash)) \o HashToString(Tail(hash))

\* dbBackupFilesFolder + "\\" + sFileHash[:2] + "\\" + sFileHash
BlobPath(sFileHash) == << SubSeq(sFileHash, 1, 2), sFileHash >>

\* fmt.Sprintf("%02d", i) for i below 100.
Sprintf02d(i) == << i \div 10, i % 10 >>

\* A loop that stops one directory short.
FanOutUpTo24 == 0..24

\* Lines 276-281 and 1047-1053: for i := 0; i <= 25; i++.
FanOutRange == 0..25

\* The directories under Files\ that layout initialisation creates.
FanOutDirs == { Sprintf02d(i) : i \in FanOutRange }

\* Digests of up to MaxLen bytes: every first byte, and the later bytes taken
\* from values of one, two and three decimal digits.
LaterBytes == { 0, 9, 10, 99, 100, 255 }

RECURSIVE Tails(_)
Tails(n) == IF n = 0 THEN { <<>> }
            ELSE { << b >> \o t : b \in LaterBytes, t \in Tails(n - 1) }

Digests == { << b >> \o t : b \in 0..255, t \in UNION { Tails(n) : n \in 0..(MaxLen - 1) } }

(***************************************************************************)
(* Blob payloads.  gzip and AES-GCM are tagged wrappers: Gunzip and Open   *)
(* undo exactly what Gzip and Seal did and fail on anything else.          *)
(***************************************************************************)
Gzip(c) == << "gz", c >>

Seal(data, key) == << "gcm", key, data >>

\* What CopyFileAndGZipWithEncryption writes for content c under key.
Payload(c, key) == IF key = NoKey THEN Gzip(c) ELSE Seal(Gzip(c), key)

\* A stored file: its bytes and whether all of them were written.
Whole(bytes) == [bytes |-> bytes, whole |-> TRUE]

Partial(bytes) == [bytes |-> bytes, whole |-> FALSE]

VARIABLES
    src,        \* source tree: path -> content
    layout,     \* Version\, Files\ and the fan-out directories exist
    inUse,      \* InUse.txt exists
    manifests,  \* Version\<v>: version -> sequence of blocks
    tmps,       \* Version\<v>.tmp: version -> sequence of blocks
    blobs,      \* Files\<dd>\<digest>: blob path -> stored file
    dbFolder,   \* per process: the package globals dbBackup*Folder ("" or "R")
    pc,         \* per process: where it is in its current call
    loc,        \* per process: the locals of the running call
    ret,        \* per process: what the last call returned
    hist,       \* history: "clean", "fault" (an I/O error happened), "crash"
    cfgKey,     \* the encryption key of the Config the restoring client uses
    stage,      \* staging area of a restore: digest -> stored file
    target,     \* restore directory: relative path -> file
    job,        \* history: the restore under way and what it last persisted
    links,      \* source tree: the paths that are symbolic links
    cfgExclude, \* the Exclude list of the Config the backups run with
    cfgBackupDir, \* the BackupDir of that Config, as the user wrote the path
    pipe,       \* one BackupFiles pipeline at the grain of its goroutines
    published   \* history: the largest version number a backup has published

repo == << layout, inUse, manifests, tmps, blobs >>

\* What the walker reads besides the regular files, and the pipeline it feeds.
walkVars == << links, cfgExclude, cfgBackupDir, pipe >>

\* What a restore reads and writes besides the repository.
restoreVars == << cfgKey, stage, target, job >>

vars == << src, layout, inUse, manifests, tmps, blobs, dbFolder, pc, loc, ret, hist,
           cfgKey, stage, target, job, links, cfgExclude, cfgBackupDir, pipe, published >>

\* RestoreState (lines 1322-1333), without the paths and times; none is the
\* zero value.
NoState == [version |-> 0, stageDir |-> "", encrypted |-> FALSE,
            copied |-> <<>>, extracted |-> <<>>, phase |-> "none"]

NoJob == [active |-> FALSE, version |-> 0, sd |-> "", empty |-> FALSE, hw |-> NoState]

NoRet == [op |-> "none", arg |-> 0, err |-> "none"]

\* A worker goroutine between two files: waiting on the channel.
IdleWorker == [pc |-> "recv", path |-> <<>>, writes |-> <<>>, chunks |-> <<>>]

\* No pipeline is running.
NoPipe ==
    [key |-> NoKey, verFile |-> <<>>, towalk |-> {}, closes |-> 0, recv |-> <<>>,
     wk |-> [w \in Workers |-> IdleWorker],
     blob |-> [exists |-> FALSE, chunks |-> <<>>], renamed |-> FALSE]

\* Locals of a call: entry point, function main dispatched to and its argument,
\* encryption key, dbNewVersionNumber, verFile open, paths the walker has not
\* handed out, blocks written whose blob is not admitted yet, the error
\* BackupFiles returns, trimVersion, the RestoreState in memory, the position
\* in the list a restore walks, where a restore goes on after saving its state,
\* and (history) the files a worker logged a warning for.
NoLoc == [ctx |-> "none", fn |-> "none", arg |-> 0, key |-> NoKey, ver |-> 0,
          open |-> FALSE, todo |-> {}, pend |-> {}, err |-> FALSE, cut |-> 0,
          state |-> NoState, i |-> 0, next |-> "none", failed |-> {},
          cleaned |-> {}, hash |-> <<>>, sFileHash |-> <<>>]

\* A repository directory on another drive than the source tree, and one
\* inside the include root C:\src.
RepoOutside == << "D:", "backup" >>

RepoInside == << "C:", "src", "repo" >>

\* The repository, the processes and the restore directory before any call.
Fresh ==
    /\ layout = FALSE
    /\ inUse = FALSE
    /\ manifests = EmptyDir
    /\ tmps = EmptyDir
    /\ blobs = EmptyDir
    /\ dbFolder = [p \in Procs |-> ""]
    /\ pc = [p \in Procs |-> "idle"]
    /\ loc = [p \in Procs |-> NoLoc]
    /\ ret = [p \in Procs |-> NoRet]
    /\ hist = "clean"
    /\ stage = EmptyDir
    /\ target = EmptyDir
    /\ job = NoJob
    /\ pipe = NoPipe
    /\ published = 0

Init ==
    /\ src = [path \in { <<"C:", "src", "f1">>, <<"C:", "src", "f2">> } |-> "abc"]
    /\ cfgKey = NoKey
    /\ links = {}
    /\ cfgExclude = {}
    /\ cfgBackupDir = RepoOutside
    /\ Fresh

\* An I/O error is remembered in the history.
Faulted(outcome) == IF outcome = "ok" \/ hist = "crash" THEN hist ELSE "fault"

(***************************************************************************)
(* Manifest blocks: the VERSION/DATE header and one FILE/MODDATE/SIZE/HASH *)
(* block per file (MODDATE and SIZE carry no information that is used).    *)
(***************************************************************************)
HeaderBlock(v) == [kind |-> "hdr", ver |-> v, file |-> <<>>, hash |-> <<>>]

FileBlock(path, sFileHash) ==
    [kind |-> "rec", ver |-> 0, file |-> path, hash |-> sFileHash]

IsRec(b) == b.kind = "rec"

\* The HASH: values of a manifest.
HashesOf(m) == { m[i].hash : i \in { j \in DOMAIN m : IsRec(m[j]) } }

(***************************************************************************)
(* The walker: filepath.Walk over the include root with the callback of    *)
(* BackupFiles (lines 336-383).                                            *)
(***************************************************************************)
\* cfg.Include: the one include root.
IncludeRoot == << "C:", "src" >>

\* The names of the model in the byte order filepath.Walk visits them in
\* (upper case sorts before lower case).
NameOrder ==
    << "00", "001023", "01", "012003", "1", "1.tmp", "2", "2.tmp", "25", "250007",
       "3", "3.tmp", "4", "4.tmp", "A.TXT", "Files", "InUse.txt", "Version", "X",
       "b.lnk", "c.txt", "f1", "f2", "repo", "restore_state.json" >>

\* strings.ToLower of a path component.
ToLowerName(name) ==
    CASE name = "C:"    -> "c:"
      [] name = "SRC"   -> "src"
      [] name = "X"     -> "x"
      [] name = "A.TXT" -> "a.txt"
      [] name = "C.TXT" -> "c.txt"
      [] name = "Files" -> "files"
      [] name = "InUse.txt" -> "inuse.txt"
      [] name = "Version" -> "version"
      [] OTHER          -> name

\* A comparison that keeps the case of the path.
KeepCase(path) == path

ToLower(path) == [k \in DOMAIN path |-> ToLowerName(path[k])]

\* filepath.Clean: the "." components go.
Clean(path) == SelectSeq(path, LAMBDA name : name /= ".")

IsPrefix(a, b) == Len(a) <= Len(b) /\ SubSeq(b, 1, Len(a)) = a

\* The working directory of the process and the drives of the machine.
Cwd == << "C:", "src" >>

Drives == { "C:", "c:", "D:" }

\* The directory the operating system resolves a path to: a path that does not
\* start at a drive is relative to the working directory.
Resolve(path) == IF path /= <<>> /\ Head(path) \in Drives THEN Clean(path)
                 ELSE Cwd \o Clean(path)

\* The name a directory entry has on disk; a lookup finds it in either case.
DiskName(name) == CASE name = "c:" -> "C:" [] name = "SRC" -> "src" [] OTHER -> name

\* cfg.BackupDir names the directory C:\src\repo.
RepoIsInside ==
    [k \in DOMAIN Resolve(cfgBackupDir) |-> DiskName(Resolve(cfgBackupDir)[k])] = RepoInside

\* File names under the repository: Version\<v>, Version\<v>.tmp and the blob
\* Files\<dd>\<digest>.
VersionName(v) == CASE v = 1 -> "1" [] v = 2 -> "2" [] v = 3 -> "3" [] OTHER -> "4"

TmpName(v) == CASE v = 1 -> "1.tmp" [] v = 2 -> "2.tmp" [] v = 3 -> "3.tmp" [] OTHER -> "4.tmp"

DigitsName(digits) ==
    CASE digits = << 0, 0 >> -> "00"
      [] digits = << 0, 1 >> -> "01"
      [] digits = << 0, 0, 1, 0, 2, 3 >> -> "001023"
      [] digits = << 0, 1, 2, 0, 0, 3 >> -> "012003"
      [] digits = << 2, 5, 0, 0, 0, 7 >> -> "250007"
      [] OTHER -> "25"

\* The regular files under the repository when it lies inside the include root.
RepoEntries ==
    IF ~RepoIsInside THEN {}
    ELSE (IF inUse THEN { RepoInside \o << "InUse.txt" >> } ELSE {})
         \cup { RepoInside \o << "Version", VersionName(v) >> : v \in DOMAIN manifests }
         \cup { RepoInside \o << "Version", TmpName(v) >> : v \in DOMAIN tmps }
         \cup { RepoInside \o << "Files", DigitsName(path[1]), DigitsName(path[2]) >> :
                    path \in DOMAIN blobs }

\* The bytes of a file under the repository, as HashFile and the copy read them.
RepoBytes == "repo"

\* What a worker reads at a walked path.
FileContent(path) == IF path \in DOMAIN src THEN src[path] ELSE RepoBytes

\* What Lstat finds under the include root: regular files, links and directories.
Entries == (DOMAIN src) \cup links \cup RepoEntries

IsDir(path) == \E e \in Entries : Len(e) > Len(path) /\ IsPrefix(path, e)

\* readDirNames: the names in directory dir, sorted.
DirNames(dir) ==
    SelectSeq(NameOrder, LAMBDA name : \E e \in Entries : IsPrefix(dir \o << name >>, e))

\* filepath.Dir(os.Executable()): the program is installed outside the source tree.
ExePath == << "C:", "bin" >>

\* Lines 1070-1079: Backup runs BackupFiles with a copy of the Config to whose
\* Exclude list it has appended the executable directory and dbBackupFolder;
\* main runs it with the Config as read.
TempCfgExclude ==
    IF \E p \in Procs : loc[p].ctx = "api"
    THEN cfgExclude \cup { ExePath, cfgBackupDir }
    ELSE cfgExclude

\* Lines 358-370: the path equals an exclude entry or lies under one, both
\* cleaned and lower-cased.
Excluded(path) ==
    \E ex \in TempCfgExclude : IsPrefix(ToLower(Clean(ex)), ToLower(Clean(path)))

\* Lines 337-374, the callback on a path that is not a directory: SkipDir for
\* a symbolic link or an excluded file, else the path goes to the channel.
WalkFn(path) ==
    IF path \in links THEN "SkipDir"
    ELSE IF Excluded(path) THEN "SkipDir"
    ELSE "send"

\* filepath.walk over the names of dir: a directory is descended into (the
\* callback returns nil for it); SkipDir returned for a file ends the walk of
\* the directory that holds it.
RECURSIVE WalkNames(_, _)
WalkNames(dir, names) ==
    IF names = <<>> THEN {}
    ELSE LET path == dir \o << Head(names) >>
         IN IF IsDir(path)
            THEN WalkNames(path, DirNames(path)) \cup WalkNames(dir, Tail(names))
            ELSE IF WalkFn(path) = "SkipDir" THEN {}
                 ELSE {path} \cup WalkNames(dir, Tail(names))

\* Files the walker hands to the workers.
Walked == WalkNames(IncludeRoot, DirNames(IncludeRoot))

\* The walk starts after <v>.tmp was opened (line 316): it also meets that file.
WalkedAfterOpen(v) ==
    LET tmp == RepoInside \o << "Version", TmpName(v) >>
    IN Walked \cup (IF RepoIsInside /\ ~Excluded(tmp) THEN {tmp} ELSE {})

\* Another process holds Version\<v>.tmp open: it can be neither deleted nor renamed.
HeldByOther(p, v) == \E q \in Procs \ {p} : loc[q].open /\ loc[q].ver = v

\* A clean-up loop that deletes nothing.
CleanNothing(p) == [left |-> tmps, err |-> FALSE]

\* The .tmp clean-up loop of BackupFiles, TrimFiles and FixFiles: delete the
\* stragglers in directory order; the first that cannot be deleted is an error.
CleanTmps(p) ==
    LET locked == { v \in DOMAIN tmps : HeldByOther(p, v) }
    IN IF locked = {}
       THEN [left |-> EmptyDir, err |-> FALSE]
       ELSE [left |-> Drop(tmps, { v \in DOMAIN tmps : \A w \in locked : v < w }),
             err |-> TRUE]

\* The return of a call: back to idle with the locals gone.
Return(p, op, arg, err) ==
    /\ pc' = [pc EXCEPT ![p] = "idle"]
    /\ loc' = [loc EXCEPT ![p] = NoLoc]
    /\ ret' = [ret EXCEPT ![p] = [op |-> op, arg |-> arg, err |-> err]]

(***************************************************************************)
(* Backup(cfg): the API entry point.                                       *)
(***************************************************************************)
\* An include path that is not on disk.
Missing == << "C:", "gone" >>

\* cfg.BackupDir and cfg.Include of a Backup call: the repository or the empty
\* string, and no include path, a missing one or the include root.
Configs == [backupDir : {"", "R"}, include : { <<>>, << Missing >>, << IncludeRoot >> }]

\* os.Stat(path) returns no error: the include root, or something in it.
Stat(path) == path = IncludeRoot \/ path \in Entries \/ IsDir(path)

\* A Backup that takes any configuration.
NoValidation(cfg) == "nil"

\* Lines 993-1011: the error of the configuration checks of Backup, or "nil".
ConfigError(cfg) ==
    IF cfg.backupDir = "" THEN "backup directory is required"
    ELSE IF Len(cfg.include) = 0 THEN "at least one include path is required"
    ELSE IF ~ \E i \in DOMAIN cfg.include : Stat(cfg.include[i])
         THEN "no valid include paths found"
    ELSE "nil"

\* Lines 992-1062: check the configuration, set the globals, MkdirAll the
\* layout, then check InUse.txt.
BackupEnter(p, key, cfg) ==
    /\ pc[p] = "idle"
    /\ MaxOf(DOMAIN manifests) < MaxVersion
    /\ IF ConfigError(cfg) /= "nil"
       THEN /\ Return(p, "Backup", cfg, ConfigError(cfg))
            /\ UNCHANGED << dbFolder, layout >>
       ELSE /\ dbFolder' = [dbFolder EXCEPT ![p] = cfg.backupDir]
            /\ layout' = TRUE
            /\ IF inUse
               THEN Return(p, "Backup", cfg, "in use")
               ELSE /\ pc' = [pc EXCEPT ![p] = "mark"]
                    /\ loc' = [loc EXCEPT ![p] = [NoLoc EXCEPT !.key = key, !.ctx = "api",
                                                                !.arg = cfg]]
                    /\ ret' = [ret EXCEPT ![p] = NoRet]
    /\ UNCHANGED << walkVars, published, src, inUse, manifests, tmps, blobs, hist, restoreVars >>

\* Lines 1064-1081: write InUse.txt (ioutil.WriteFile creates or truncates),
\* register its deferred deletion and call BackupFiles.
BackupMark(p) ==
    /\ pc[p] = "mark"
    /\ inUse' = TRUE
    /\ pc' = [pc EXCEPT ![p] = "scan"]
    /\ UNCHANGED << walkVars, published, src, layout, manifests, tmps, blobs, dbFolder, loc, ret, hist, restoreVars >>

(***************************************************************************)
(* BackupFiles(cfg): the pipeline.                                         *)
(***************************************************************************)
\* Lines 260-310: make the layout if missing, delete the .tmp stragglers in
\* directory order (stopping with an error at one that cannot be deleted) and
\* take the largest version number plus one.
BFScan(p) ==
    /\ pc[p] = "scan"
    /\ layout' = TRUE
    /\ tmps' = CleanTmps(p).left
    /\ IF CleanTmps(p).err
       THEN /\ loc' = [loc EXCEPT ![p].err = TRUE,
                                     ![p].cleaned = DOMAIN tmps \ DOMAIN tmps']
            /\ pc' = [pc EXCEPT ![p] = "ret"]
       ELSE /\ loc' = [loc EXCEPT ![p].ver = MaxOf(DOMAIN manifests) + 1,
                                     ![p].cleaned = DOMAIN tmps \ DOMAIN tmps']
            /\ pc' = [pc EXCEPT ![p] = "open"]
    /\ UNCHANGED << walkVars, published, src, inUse, manifests, blobs, dbFolder, ret, hist, restoreVars >>

\* Lines 312-326: open <v>.tmp with O_APPEND|O_CREATE and write the header.
BFOpen(p, outcome) ==
    /\ pc[p] = "open"
    /\ outcome \in {"ok", "openErr"}
    /\ LET v == loc[p].ver
       IN IF outcome = "ok"
          THEN /\ tmps' = IF v \in DOMAIN tmps
                          THEN [tmps EXCEPT ![v] = Append(@, HeaderBlock(v))]
                          ELSE Put(tmps, v, << HeaderBlock(v) >>)
               /\ loc' = [loc EXCEPT ![p].open = TRUE, ![p].todo = WalkedAfterOpen(v)]
               /\ pc' = [pc EXCEPT ![p] = "work"]
          ELSE /\ loc' = [loc EXCEPT ![p].err = TRUE]
               /\ pc' = [pc EXCEPT ![p] = "ret"]
               /\ UNCHANGED tmps
    /\ hist' = Faulted(outcome)
    /\ UNCHANGED << walkVars, published, src, layout, inUse, manifests, blobs, dbFolder, ret, restoreVars >>

\* Lines 389-405: a worker takes a path, hashes the file and appends its block
\* to the version file; either failing skips the file.
BFWorkerRecord(p, path, outcome) ==
    /\ pc[p] = "work"
    /\ path \in loc[p].todo
    /\ outcome \in {"ok", "hashErr", "writeErr"}
    /\ LET block == FileBlock(path, HashToString(HashFile(FileContent(path))))
       IN IF outcome = "ok"
          THEN /\ tmps' = [tmps EXCEPT ![loc[p].ver] = Append(@, block)]
               /\ loc' = [loc EXCEPT ![p].todo = @ \ {path},
                                     ![p].pend = @ \cup {block}]
          ELSE /\ loc' = [loc EXCEPT ![p].todo = @ \ {path},
                                     ![p].failed = @ \cup {path}]
               /\ UNCHANGED tmps
    /\ hist' = Faulted(outcome)
    /\ UNCHANGED << walkVars, published, src, layout, inUse, manifests, blobs, dbFolder, pc, ret, restoreVars >>

\* Lines 407-420: the same worker then admits the content: nothing if a file
\* is at the blob path already, else CopyFileAndGZipWithEncryption, which may
\* fail before creating the blob ("copyErr") or part-way ("partial").
BFWorkerAdmit(p, block, outcome) ==
    /\ pc[p] = "work"
    /\ block \in loc[p].pend
    /\ outcome \in {"ok", "copyErr", "partial"}
    /\ loc' = [loc EXCEPT ![p].pend = @ \ {block},
                          ![p].failed = IF outcome = "ok" THEN @ ELSE @ \cup {block.file}]
    /\ LET dst == BlobPath(block.hash)
           bytes == Payload(FileContent(block.file), loc[p].key)
       IN IF dst \in DOMAIN blobs
          THEN /\ outcome = "ok"
               /\ UNCHANGED blobs
          ELSE blobs' = CASE outcome = "ok"      -> Put(blobs, dst, Whole(bytes))
                          [] outcome = "partial" -> Put(blobs, dst, Partial(bytes))
                          [] OTHER               -> blobs
    /\ hist' = Faulted(outcome)
    /\ UNCHANGED << walkVars, published, src, layout, inUse, manifests, tmps, dbFolder, pc, ret, restoreVars >>

\* A pipeline whose barrier lets the main goroutine through at once.
WorkersNotAwaited(p) == TRUE

\* Line 425, wg.Wait(): the walker has closed the channel (nothing is left to
\* hand out) and each worker has left its loop and called wg.Done().
WorkersDone(p) == loc[p].todo = {} /\ loc[p].pend = {}

\* Lines 425-437: after wg.Wait, close the version file and rename it.  The
\* rename replaces an existing <v>; it fails if <v>.tmp is gone or held open.
BFPublish(p, outcome) ==
    /\ pc[p] = "work"
    /\ WorkersDone(p)
    /\ outcome \in {"ok", "renameErr"}
    /\ LET v == loc[p].ver
           renamed == /\ outcome = "ok"
                      /\ v \in DOMAIN tmps
                      /\ ~HeldByOther(p, v)
       IN IF renamed
          THEN /\ manifests' = Put(manifests, v, tmps[v])
               /\ tmps' = Drop(tmps, {v})
               /\ loc' = [loc EXCEPT ![p].open = FALSE]
               /\ published' = MaxOf({published, v})
          ELSE /\ loc' = [loc EXCEPT ![p].open = FALSE, ![p].err = TRUE]
               /\ UNCHANGED << manifests, tmps, published >>
    /\ pc' = [pc EXCEPT ![p] = "ret"]
    /\ hist' = Faulted(outcome)
    /\ UNCHANGED << walkVars, src, layout, inUse, blobs, dbFolder, ret, restoreVars >>

\* A Backup that returns without its deferred FileDelete.
BackupReturnKeepsMarker(p) ==
    /\ pc[p] = "ret"
    /\ loc[p].ctx = "api"
    /\ Return(p, "Backup", loc[p].ver, "nil")
    /\ UNCHANGED << walkVars, published, src, layout, inUse, manifests, tmps, blobs, dbFolder, hist, restoreVars >>

\* Lines 1068, 1081-1082: Backup drops what BackupFiles returned, returns nil,
\* and the deferred FileDelete removes InUse.txt.
BackupReturn(p) ==
    /\ pc[p] = "ret"
    /\ loc[p].ctx = "api"
    /\ inUse' = FALSE
    /\ Return(p, "Backup", loc[p].ver, "nil")
    /\ UNCHANGED << walkVars, published, src, layout, manifests, tmps, blobs, dbFolder, hist, restoreVars >>

(***************************************************************************)
(* os.Exit(1) inside the package ends the process: nothing is cleaned up.  *)
(***************************************************************************)
Exit(p, op, arg) ==
    /\ pc' = [pc EXCEPT ![p] = "idle"]
    /\ loc' = [loc EXCEPT ![p] = NoLoc]
    /\ dbFolder' = [dbFolder EXCEPT ![p] = ""]
    /\ ret' = [ret EXCEPT ![p] = [op |-> op, arg |-> arg, err |-> "exit"]]

(***************************************************************************)
(* TrimFiles(cfg).                                                         *)
(***************************************************************************)
\* cfg.trimValue: a decimal N, "+K", or text strconv.Atoi rejects.
TrimValues ==
    { [valid |-> TRUE, plus |-> FALSE, n |-> k] : k \in 1..MaxVersion }
        \cup { [valid |-> TRUE, plus |-> TRUE, n |-> k] : k \in 0..(MaxVersion - 1) }
        \cup { [valid |-> FALSE, plus |-> FALSE, n |-> 0] }

\* A cut that takes the number as it is parsed, with or without a "+".
TrimVersionAsParsed(tv, dbMaxVersionNumber) == tv.n

\* Lines 493-505: Atoi reads "+K" as K; with a "+" the cut is vmax - K, not below 0.
TrimVersion(tv, dbMaxVersionNumber) ==
    LET t == IF tv.plus THEN dbMaxVersionNumber - tv.n ELSE tv.n
    IN IF t < 0 THEN 0 ELSE t

\* A first pass without the second: every hash of a version below the cut.
ToDelOnePass(ms, trimVersion) ==
    UNION { HashesOf(ms[v]) : v \in { w \in DOMAIN ms : w < trimVersion } }

\* Lines 515-570: the hashes of the manifests below the cut, minus those of the
\* manifests at or above it.
ToDel(ms, trimVersion) ==
    UNION { HashesOf(ms[v]) : v \in { w \in DOMAIN ms : w < trimVersion } }
        \ UNION { HashesOf(ms[v]) : v \in { w \in DOMAIN ms : w >= trimVersion } }

\* Lines 583-595: the version files 1 .. trimVersion-1.
TrimmedVersions(trimVersion) == 1..(trimVersion - 1)

\* Lines 440-581: check the folders, clean the stragglers, parse the trim value,
\* build toDel and delete those blobs (a failed deletion, failB, is logged).
TrimFiles(p, tv, failB) ==
    /\ pc[p] = "main"
    /\ loc[p].fn = "none"
    /\ IF ~layout
       THEN /\ failB = {}
            /\ Exit(p, "TrimFiles", tv)
            /\ UNCHANGED << tmps, blobs >>
       ELSE /\ tmps' = CleanTmps(p).left
            /\ IF CleanTmps(p).err \/ ~tv.valid
               THEN /\ failB = {}
                    /\ Exit(p, "TrimFiles", tv)
                    /\ UNCHANGED blobs
               ELSE LET cut == TrimVersion(tv, MaxOf(DOMAIN manifests))
                        del == { BlobPath(h) : h \in ToDel(manifests, cut) }
                    IN /\ failB \subseteq (del \cap DOMAIN blobs)
                       /\ blobs' = Drop(blobs, del \ failB)
                       /\ pc' = [pc EXCEPT ![p] = "trim2"]
                       /\ loc' = [loc EXCEPT ![p].fn = "TrimFiles", ![p].arg = tv,
                                             ![p].cut = cut,
                                             ![p].cleaned = DOMAIN tmps \ DOMAIN tmps']
                       /\ UNCHANGED << dbFolder, ret >>
    /\ hist' = Faulted(IF failB = {} THEN "ok" ELSE "delErr")
    /\ UNCHANGED << walkVars, published, src, layout, inUse, manifests, restoreVars >>

\* Lines 583-597: delete the version files below the cut (failV: logged failures).
TrimFilesVersions(p, failV) ==
    /\ pc[p] = "trim2"
    /\ failV \subseteq (TrimmedVersions(loc[p].cut) \cap DOMAIN manifests)
    /\ manifests' = Drop(manifests, TrimmedVersions(loc[p].cut) \ failV)
    /\ pc' = [pc EXCEPT ![p] = "ret"]
    /\ hist' = Faulted(IF failV = {} THEN "ok" ELSE "delErr")
    /\ UNCHANGED << walkVars, published, src, layout, inUse, tmps, blobs, dbFolder, loc, ret, restoreVars >>

(***************************************************************************)
(* FixFiles(cfg) and _FixFilesDir.                                         *)
(***************************************************************************)
\* No path: the argument of a step in which no deletion fails.
NoPath == <<>>

\* Directory order of two names of the same length.
NameBefore(a, b) ==
    \E i \in 1..Len(a) : a[i] < b[i] /\ \A j \in 1..(i - 1) : a[j] = b[j]

\* Lines 757-776: toKeep, the hashes of every file left in Version\.
ToKeep(ms) == UNION { HashesOf(ms[v]) : v \in DOMAIN ms }

\* A walk of Files\ that finds nothing to delete.
NoOrphans(bs, toKeep) == {}

\* Lines 787-813: the files under Files\ whose name is not in toKeep.
Orphans(bs, toKeep) == { path \in DOMAIN bs : path[2] \notin toKeep }

\* FixFiles cannot start: the globals are not set, or the folders are missing.
FixFilesNoFolder(p) == dbFolder[p] = "" \/ ~layout

\* What FixFiles leaves on disk.  fail is the orphan whose deletion fails (the
\* walk stops there), or NoPath.
FixFilesDisk(p, fail) ==
    IF FixFilesNoFolder(p)
    THEN /\ fail = NoPath
         /\ UNCHANGED << tmps, blobs >>
    ELSE /\ tmps' = CleanTmps(p).left
         /\ IF CleanTmps(p).err
            THEN /\ fail = NoPath
                 /\ UNCHANGED blobs
            ELSE LET orphans == Orphans(blobs, ToKeep(manifests))
                 IN IF fail = NoPath
                    THEN blobs' = Drop(blobs, orphans)
                    ELSE /\ fail \in orphans
                         /\ blobs' = Drop(blobs, { o \in orphans :
                                                    NameBefore(o[2], fail[2]) })

\* FixFiles ends in os.Exit(1).
FixFilesExits(p, fail) == FixFilesNoFolder(p) \/ CleanTmps(p).err \/ fail /= NoPath

\* FixFiles as main runs it.
FixFiles(p, fail) ==
    /\ pc[p] = "main"
    /\ loc[p].fn = "none"
    /\ FixFilesDisk(p, fail)
    /\ IF FixFilesExits(p, fail)
       THEN Exit(p, "FixFiles", 0)
       ELSE /\ pc' = [pc EXCEPT ![p] = "ret"]
            /\ loc' = [loc EXCEPT ![p].fn = "FixFiles",
                                  ![p].cleaned = DOMAIN tmps \ DOMAIN tmps']
            /\ UNCHANGED << dbFolder, ret >>
    /\ hist' = Faulted(IF fail = NoPath THEN "ok" ELSE "delErr")
    /\ UNCHANGED << walkVars, published, src, layout, inUse, manifests, restoreVars >>

\* Lines 1224-1228: Fix(cfg) calls FixFiles and returns nil.
Fix(p, fail) ==
    /\ pc[p] = "idle"
    /\ FixFilesDisk(p, fail)
    /\ IF FixFilesExits(p, fail)
       THEN Exit(p, "Fix", 0)
       ELSE /\ Return(p, "Fix", 0, "nil")
            /\ UNCHANGED dbFolder
    /\ hist' = Faulted(IF fail = NoPath THEN "ok" ELSE "delErr")
    /\ UNCHANGED << walkVars, published, src, layout, inUse, manifests, restoreVars >>

(***************************************************************************)
(* FixFileInUse(cfg).                                                      *)
(***************************************************************************)
\* Lines 815-823: FileDelete(dbBackupInUseFile); failing is os.Exit(1).
FixFileInUse(p) ==
    /\ pc[p] = "main"
    /\ loc[p].fn = "none"
    /\ inUse' = FALSE
    /\ IF inUse
       THEN /\ pc' = [pc EXCEPT ![p] = "ret"]
            /\ loc' = [loc EXCEPT ![p].fn = "FixFileInUse"]
            /\ UNCHANGED << dbFolder, ret >>
       ELSE Exit(p, "FixFileInUse", 0)
    /\ UNCHANGED << walkVars, published, src, layout, manifests, tmps, blobs, hist, restoreVars >>

\* Lines 1230-1234: FixInUse(cfg) calls FixFileInUse and returns nil.
FixInUse(p) ==
    /\ pc[p] = "idle"
    /\ IF dbFolder[p] /= "" /\ inUse
       THEN /\ inUse' = FALSE
            /\ Return(p, "FixInUse", 0, "nil")
            /\ UNCHANGED dbFolder
       ELSE /\ Exit(p, "FixInUse", 0)
            /\ UNCHANGED inUse
    /\ UNCHANGED << walkVars, published, src, layout, manifests, tmps, blobs, hist, restoreVars >>

(***************************************************************************)
(* VerifyFiles(cfg) and hashGzipFile.                                      *)
(***************************************************************************)
\* cfg.verifyValue: "0" (the largest version), a decimal N, or text Atoi rejects.
VerifyValues ==
    { [valid |-> TRUE, n |-> k] : k \in 0..MaxVersion } \cup { [valid |-> FALSE, n |-> 0] }

\* Lines 859-881: open the blob, gunzip it (no decryption) and hash the result.
HashGzipFile(bs, path) ==
    IF path \notin DOMAIN bs THEN [err |-> TRUE, hash |-> <<>>]
    ELSE IF bs[path].bytes[1] /= "gz" \/ ~bs[path].whole THEN [err |-> TRUE, hash |-> <<>>]
    ELSE [err |-> FALSE, hash |-> HashFile(bs[path].bytes[2])]

\* Lines 624-657: "0" stands for the largest version that is not a .tmp.
VerifyVersion(vv, ms) == IF vv.n = 0 THEN MaxOf(DOMAIN ms) ELSE vv.n

\* Lines 673-683: the blob of a HASH: line cannot be hashed, or hashes to
\* another digest.
LineFails(bs, h) ==
    LET r == HashGzipFile(bs, BlobPath(h))
    IN r.err \/ HashToString(r.hash) /= h

RECURSIVE VerifyScanLastLine(_, _, _)
\* A scan whose flag is the outcome of the last HASH: line.
VerifyScanLastLine(lines, bs, bVerifyErrors) ==
    IF lines = <<>> THEN bVerifyErrors
    ELSE VerifyScanLastLine(Tail(lines), bs,
                            IF IsRec(Head(lines)) THEN LineFails(bs, Head(lines).hash)
                            ELSE bVerifyErrors)

RECURSIVE VerifyScan(_, _, _)
\* Lines 667-686: the scan of the lines of a manifest: a failing HASH: line
\* sets bVerifyErrors, nothing resets it, and the loop goes on to the end.
VerifyScan(lines, bs, bVerifyErrors) ==
    IF lines = <<>> THEN bVerifyErrors
    ELSE VerifyScan(Tail(lines), bs,
                    IF IsRec(Head(lines)) /\ LineFails(bs, Head(lines).hash) THEN TRUE
                    ELSE bVerifyErrors)

\* Lines 665-686: bVerifyErrors after the scan of manifest m.
VerifyErrors(m, bs) == VerifyScan(m, bs, FALSE)

\* Lines 600-695: VerifyFiles as main runs it; every failure is os.Exit(1).
VerifyFiles(p, vv) ==
    /\ pc[p] = "main"
    /\ loc[p].fn = "none"
    /\ LET v == VerifyVersion(vv, manifests)
       IN IF \/ ~layout
             \/ ~vv.valid
             \/ v \notin DOMAIN manifests
             \/ VerifyErrors(manifests[v], blobs)
          THEN Exit(p, "VerifyFiles", vv)
          ELSE /\ pc' = [pc EXCEPT ![p] = "ret"]
               /\ loc' = [loc EXCEPT ![p].fn = "VerifyFiles", ![p].arg = vv]
               /\ UNCHANGED << dbFolder, ret >>
    /\ UNCHANGED << walkVars, published, src, layout, inUse, manifests, tmps, blobs, hist, restoreVars >>

(***************************************************************************)
(* main(): the entry point kept in the package (lines 96-251).             *)
(***************************************************************************)
\* Lines 199-221: set the globals, exit if InUse.txt exists, else write it.
MainStart(p) ==
    /\ pc[p] = "idle"
    /\ IF inUse
       THEN /\ Exit(p, "main", 0)
            /\ UNCHANGED inUse
       ELSE /\ inUse' = TRUE
            /\ dbFolder' = [dbFolder EXCEPT ![p] = "R"]
            /\ pc' = [pc EXCEPT ![p] = "main"]
            /\ loc' = [loc EXCEPT ![p] = [NoLoc EXCEPT !.ctx = "main"]]
            /\ ret' = [ret EXCEPT ![p] = NoRet]
    /\ UNCHANGED << walkVars, published, src, layout, manifests, tmps, blobs, hist, restoreVars >>

\* Lines 223-225: main runs BackupFiles.
MainBackupFiles(p, key) ==
    /\ pc[p] = "main"
    /\ loc[p].fn = "none"
    /\ MaxOf(DOMAIN manifests) < MaxVersion
    /\ pc' = [pc EXCEPT ![p] = "scan"]
    /\ loc' = [loc EXCEPT ![p].fn = "BackupFiles", ![p].key = key]
    /\ UNCHANGED << walkVars, published, src, layout, inUse, manifests, tmps, blobs, dbFolder, ret, hist, restoreVars >>

\* Lines 245-251: main deletes InUse.txt (failing is os.Exit(1)) and the process ends.
MainEnd(p) ==
    /\ pc[p] = "ret"
    /\ loc[p].ctx = "main"
    /\ inUse' = FALSE
    /\ IF inUse
       THEN /\ Return(p, loc[p].fn, loc[p].arg, "nil")
            /\ dbFolder' = [dbFolder EXCEPT ![p] = ""]
       ELSE Exit(p, loc[p].fn, loc[p].arg)
    /\ UNCHANGED << walkVars, published, src, layout, manifests, tmps, blobs, hist, restoreVars >>

(***************************************************************************)
(* Trim(cfg, trimValue) and Verify(cfg, verifyValue): the API entry points.*)
(***************************************************************************)
\* Lines 1086-1096: store the value in the local copy of cfg and validate it.
Trim(p, tv) ==
    /\ pc[p] = "idle"
    /\ Return(p, "Trim", tv, IF tv.valid THEN "nil" ELSE "error")
    /\ UNCHANGED << walkVars, published, src, layout, inUse, manifests, tmps, blobs, dbFolder, hist, restoreVars >>

\* Lines 1099-1111: store the value in the local copy of cfg and validate it.
Verify(p, vv) ==
    /\ pc[p] = "idle"
    /\ Return(p, "Verify", vv, IF vv.valid THEN "nil" ELSE "error")
    /\ UNCHANGED << walkVars, published, src, layout, inUse, manifests, tmps, blobs, dbFolder, hist, restoreVars >>

(***************************************************************************)
(* Restore(cfg, version, restoreDir).                                      *)
(***************************************************************************)
\* restoreDir\restore_state.json, as a path relative to the restore directory.
StateFile == << "restore_state.json" >>

\* A file of the restore directory: extracted text, or the JSON of a
\* RestoreState; whole is FALSE when only a prefix of it got written.
RawFile(c) == [text |-> c, whole |-> TRUE, st |-> NoState]

EmptyFile == RawFile("")

Torn(f) == [f EXCEPT !.whole = FALSE]

\* saveRestoreState: json.MarshalIndent of the state.
Marshal(state) == [text |-> "json", whole |-> TRUE, st |-> state]

\* What StaleJson parses to.
StaleState == [version |-> 1, stageDir |-> "T", encrypted |-> FALSE,
               copied |-> <<>>, extracted |-> <<>>, phase |-> "completed"]

\* loadRestoreState: json.Unmarshal accepts a complete JSON object only.
Unmarshal(f) ==
    IF f.whole /\ f.text = "json" THEN [err |-> FALSE, state |-> f.st]
    ELSE IF f.whole /\ f.text = StaleJson THEN [err |-> FALSE, state |-> StaleState]
    ELSE [err |-> TRUE, state |-> NoState]

\* ExtractGZipAndDecrypt on an opened staging file f, after os.Create(dst):
\* whether it fails and what it leaves at dst.
ExtractGZipAndDecrypt(f, key) ==
    IF key /= NoKey
    THEN IF f.whole /\ f.bytes[1] = "gcm" /\ f.bytes[2] = key
         THEN [err |-> FALSE, out |-> RawFile(f.bytes[3][2])]
         ELSE [err |-> TRUE, out |-> EmptyFile]
    ELSE IF f.bytes[1] /= "gz" THEN [err |-> TRUE, out |-> EmptyFile]
         ELSE IF f.whole THEN [err |-> FALSE, out |-> RawFile(f.bytes[2])]
         ELSE [err |-> TRUE, out |-> Torn(RawFile(f.bytes[2]))]

\* Lines 1637-1646: filepath.Base, or the last two components of a path that
\* contains \subdir\.
RelPath(currentFile) ==
    LET n == Len(currentFile)
    IN IF \E k \in 2..(n - 1) : currentFile[k] = "subdir"
       THEN << currentFile[n - 1], currentFile[n] >>
       ELSE << currentFile[n] >>

InSeq(x, sq) == \E k \in DOMAIN sq : sq[k] = x

\* Lines 1429-1445: the state of a restore that starts afresh.
NewState(version, sd, key) ==
    [version |-> version, stageDir |-> sd, encrypted |-> key /= NoKey,
     copied |-> <<>>, extracted |-> <<>>, phase |-> "copying"]

\* Lines 1465, 1478: which phase a state enters.
PhasePc(state) ==
    CASE state.phase = "copying"    -> "rcopy"
      [] state.phase = "extracting" -> "rextract"
      [] OTHER                      -> "rclean"

\* Lines 1391-1462: check the version file, load restore_state.json or, if it
\* is missing or does not parse, start afresh.
RestoreBegin(p, version, sd) ==
    /\ pc[p] = "idle"
    /\ dbFolder' = [dbFolder EXCEPT ![p] = "R"]
    /\ IF version \notin DOMAIN manifests
       THEN /\ Return(p, "Restore", version, "not found")
            /\ UNCHANGED job
       ELSE LET loaded == IF StateFile \in DOMAIN target
                          THEN Unmarshal(target[StateFile])
                          ELSE [err |-> TRUE, state |-> NoState]
                state == IF loaded.err THEN NewState(version, sd, cfgKey)
                         ELSE loaded.state
            IN /\ pc' = [pc EXCEPT ![p] = PhasePc(state)]
               /\ loc' = [loc EXCEPT ![p] =
                            [NoLoc EXCEPT !.ctx = "api", !.fn = "Restore", !.ver = version,
                                          !.key = cfgKey, !.state = state, !.i = 1]]
               /\ ret' = [ret EXCEPT ![p] = NoRet]
               /\ job' = IF job.active THEN job
                         ELSE [active |-> TRUE, version |-> version, sd |-> sd,
                               empty |-> (target = EmptyDir /\ stage = EmptyDir),
                               hw |-> NoState]
    /\ UNCHANGED << walkVars, published, src, layout, inUse, manifests, tmps, blobs, hist, cfgKey, stage, target >>

\* Restore called by a client that calls again, with the same arguments, the
\* restore that was interrupted.
RestoreEnter(p, version, sd) ==
    /\ job.active => (version = job.version /\ sd = job.sd)
    /\ RestoreBegin(p, version, sd)

\* copyBackupFiles is about to copy the blob of block i to the staging area.
CopyDue(p) ==
    LET m == manifests[loc[p].ver]
        i == loc[p].i
    IN /\ i <= Len(m)
       /\ IsRec(m[i])
       /\ ~InSeq(m[i].hash, loc[p].state.copied)
       /\ BlobPath(m[i].hash) \in DOMAIN blobs

\* Lines 1528-1601 and 1470-1471: one block of the version file: copy its blob
\* to the staging area unless CopiedFiles has it or it cannot be opened; after
\* the last block the phase becomes "extracting".
RestoreCopy(p) ==
    /\ pc[p] = "rcopy"
    /\ LET m == manifests[loc[p].ver]
           i == loc[p].i
       IN IF i > Len(m)
          THEN /\ loc' = [loc EXCEPT ![p].state.phase = "extracting",
                                     ![p].next = "rextract", ![p].i = 1]
               /\ pc' = [pc EXCEPT ![p] = "save"]
               /\ UNCHANGED stage
          ELSE IF CopyDue(p)
               THEN /\ stage' = Put(stage, m[i].hash, blobs[BlobPath(m[i].hash)])
                    /\ loc' = [loc EXCEPT ![p].state.copied = Append(@, m[i].hash),
                                          ![p].next = "rcopy", ![p].i = i + 1]
                    /\ pc' = [pc EXCEPT ![p] = "save"]
               ELSE /\ loc' = [loc EXCEPT ![p].i = i + 1]
                    /\ UNCHANGED << pc, stage >>
    /\ UNCHANGED << walkVars, published, src, layout, inUse, manifests, tmps, blobs, dbFolder, ret, hist,
                    cfgKey, target, job >>

\* saveRestoreState (ioutil.WriteFile) after a copy, an extraction or a change
\* of phase; when it fails (the file cannot be opened for writing) the caller
\* prints a warning and goes on.
RestoreSave(p, ok) ==
    /\ pc[p] = "save"
    /\ IF ok
       THEN /\ target' = Put(target, StateFile, Marshal(loc[p].state))
            /\ job' = [job EXCEPT !.hw = loc[p].state]
       ELSE UNCHANGED << target, job >>
    /\ hist' = Faulted(IF ok THEN "ok" ELSE "saveErr")
    /\ pc' = [pc EXCEPT ![p] = loc[p].next]
    /\ UNCHANGED << walkVars, published, src, layout, inUse, manifests, tmps, blobs, dbFolder, loc, ret,
                    cfgKey, stage >>

\* extractBackupFiles is about to extract the file of block i.
ExtractDue(p) ==
    LET m == manifests[loc[p].state.version]
        i == loc[p].i
    IN /\ i <= Len(m)
       /\ IsRec(m[i])
       /\ ~InSeq(m[i].file, loc[p].state.extracted)
       /\ m[i].hash \in DOMAIN stage

\* Lines 1604-1682 and 1484-1485: one block of the version file state.Version
\* names: extract the staged blob to the restore directory unless
\* ExtractedFiles has the file or the staged blob cannot be opened; a failed
\* extraction leaves what it wrote; after the last block the phase becomes
\* "completed".
RestoreExtract(p) ==
    /\ pc[p] = "rextract"
    /\ IF loc[p].state.version \notin DOMAIN manifests
       THEN /\ Return(p, "Restore", loc[p].ver, "error")
            /\ UNCHANGED target
       ELSE LET m == manifests[loc[p].state.version]
                i == loc[p].i
            IN /\ UNCHANGED ret
               /\ IF i > Len(m)
                  THEN /\ loc' = [loc EXCEPT ![p].state.phase = "completed",
                                             ![p].next = "rclean", ![p].i = 1]
                       /\ pc' = [pc EXCEPT ![p] = "save"]
                       /\ UNCHANGED target
                  ELSE IF ExtractDue(p)
                       THEN LET r == ExtractGZipAndDecrypt(stage[m[i].hash], loc[p].key)
                            IN /\ target' = Put(target, RelPath(m[i].file), r.out)
                               /\ IF r.err
                                  THEN /\ loc' = [loc EXCEPT ![p].i = i + 1]
                                       /\ UNCHANGED pc
                                  ELSE /\ loc' = [loc EXCEPT
                                                    ![p].state.extracted = Append(@, m[i].file),
                                                    ![p].next = "rextract", ![p].i = i + 1]
                                       /\ pc' = [pc EXCEPT ![p] = "save"]
                       ELSE /\ loc' = [loc EXCEPT ![p].i = i + 1]
                            /\ UNCHANGED << pc, target >>
    /\ UNCHANGED << walkVars, published, src, layout, inUse, manifests, tmps, blobs, dbFolder, hist,
                    cfgKey, stage, job >>

\* Lines 1496-1505: remove the staging file of the next entry of CopiedFiles
\* from state.StageDir (a missing one is passed over).
RestoreClean(p) ==
    /\ pc[p] = "rclean"
    /\ LET copied == loc[p].state.copied
           i == loc[p].i
       IN IF i > Len(copied)
          THEN /\ pc' = [pc EXCEPT ![p] = "rclean2"]
               /\ UNCHANGED << loc, stage >>
          ELSE /\ stage' = IF loc[p].state.stageDir = job.sd
                           THEN Drop(stage, {copied[i]})
                           ELSE stage
               /\ loc' = [loc EXCEPT ![p].i = i + 1]
               /\ UNCHANGED pc
    /\ UNCHANGED << walkVars, published, src, layout, inUse, manifests, tmps, blobs, dbFolder, ret, hist,
                    cfgKey, target, job >>

\* Lines 1507-1524: remove restore_state.json and return nil.
RestoreFinish(p) ==
    /\ pc[p] = "rclean2"
    /\ target' = Drop(target, {StateFile})
    /\ Return(p, "Restore",
              [version |-> loc[p].ver, sd |-> job.sd, empty |-> job.empty], "nil")
    /\ job' = NoJob
    /\ UNCHANGED << walkVars, published, src, layout, inUse, manifests, tmps, blobs, dbFolder, hist,
                    cfgKey, stage >>

\* The restoring process is killed, between two writes or (torn) in the
\* middle of the one it is about to make: the file written holds a prefix.
RestoreCrash(p, torn) ==
    /\ pc[p] \in {"rcopy", "save", "rextract", "rclean", "rclean2"}
    /\ IF torn
       THEN CASE pc[p] = "save" ->
                    /\ target' = Put(target, StateFile, Torn(Marshal(loc[p].state)))
                    /\ UNCHANGED stage
              [] pc[p] = "rcopy" ->
                    /\ CopyDue(p)
                    /\ LET h == manifests[loc[p].ver][loc[p].i].hash
                       IN stage' = Put(stage, h, Partial(blobs[BlobPath(h)].bytes))
                    /\ UNCHANGED target
              [] pc[p] = "rextract" ->
                    /\ loc[p].state.version \in DOMAIN manifests
                    /\ ExtractDue(p)
                    /\ LET b == manifests[loc[p].state.version][loc[p].i]
                       IN target' = Put(target, RelPath(b.file),
                              Torn(ExtractGZipAndDecrypt(stage[b.hash], loc[p].key).out))
                    /\ UNCHANGED stage
              [] OTHER -> FALSE
       ELSE UNCHANGED << stage, target >>
    /\ pc' = [pc EXCEPT ![p] = "idle"]
    /\ loc' = [loc EXCEPT ![p] = NoLoc]
    /\ ret' = [ret EXCEPT ![p] = NoRet]
    /\ dbFolder' = [dbFolder EXCEPT ![p] = ""]
    /\ hist' = "crash"
    /\ UNCHANGED << walkVars, published, src, layout, inUse, manifests, tmps, blobs, cfgKey, job >>

(***************************************************************************)
(* Environment.                                                            *)
(***************************************************************************)
\* The process p is killed: its handles close and its globals go, the disk stays.
Crash(p) ==
    /\ pc[p] /= "idle"
    /\ pc' = [pc EXCEPT ![p] = "idle"]
    /\ loc' = [loc EXCEPT ![p] = NoLoc]
    /\ ret' = [ret EXCEPT ![p] = NoRet]
    /\ dbFolder' = [dbFolder EXCEPT ![p] = ""]
    /\ hist' = "crash"
    /\ UNCHANGED << walkVars, published, src, layout, inUse, manifests, tmps, blobs, restoreVars >>

\* The client process ends and a new one starts: the globals are unset again.
ProcessRestart(p) ==
    /\ pc[p] = "idle"
    /\ dbFolder[p] /= ""
    /\ dbFolder' = [dbFolder EXCEPT ![p] = ""]
    /\ ret' = [ret EXCEPT ![p] = NoRet]
    /\ UNCHANGED << walkVars, published, src, layout, inUse, manifests, tmps, blobs, pc, loc, hist, restoreVars >>

\* Between calls the user rewrites a source file.
ModifySource(path, c) ==
    /\ \A p \in Procs : pc[p] = "idle"
    /\ src[path] /= c
    /\ src' = [src EXCEPT ![path] = c]
    /\ UNCHANGED << walkVars, published, layout, inUse, manifests, tmps, blobs, dbFolder, pc, loc, ret, hist, restoreVars >>

\* Between calls the client points its Config at another backup directory.
ConfigChange(dir) ==
    /\ \A p \in Procs : pc[p] = "idle"
    /\ cfgBackupDir /= dir
    /\ cfgBackupDir' = dir
    /\ UNCHANGED << links, cfgExclude, pipe, published, src, layout, inUse, manifests, tmps,
                    blobs, dbFolder, pc, loc, ret, hist, restoreVars >>

(***************************************************************************)
(* The goroutines of one BackupFiles pipeline (lines 316-432): the walker, *)
(* the workers, and the caller waiting for them.  Every file of the tree   *)
(* has the same content, so that the workers compete for one blob.         *)
(***************************************************************************)
\* Lines 322-323: the two lines the caller writes before it starts a worker.
HeaderLines == << [kind |-> "VERSION", file |-> <<>>], [kind |-> "DATE", file |-> <<>>] >>

\* Lines 397-400: the four lines of the record of a file.
FileLines(path) ==
    << [kind |-> "FILE", file |-> path], [kind |-> "MODDATE", file |-> path],
       [kind |-> "SIZE", file |-> path], [kind |-> "HASH", file |-> path] >>

\* A worker that issued one write per line.
RecordWritesPerLine(path) == [i \in 1..4 |-> << FileLines(path)[i] >>]

\* Lines 397-400: the write calls a worker issues for a record: one
\* WriteString of the four lines.
RecordWrites(path) == << FileLines(path) >>

\* The stored file is written in two parts: the first bytes, and the rest.
NumChunks == 2

\* A copy that wrote its sealed data as it produced it.
CopyWritesStreamed(key) == << {1}, {2} >>

\* Lines 1179-1213: the write calls of a copy, each the set of parts it
\* writes.  With a key the sealed data is written by one out.Write (line
\* 1198); without one gzip.Writer writes its header on the first Write of
\* io.Copy and the rest when it is closed.
CopyWrites(key) == IF key = NoKey THEN << {1}, {2} >> ELSE << {1, 2} >>

\* A write through the handle of worker w, at that handle's own offset: the
\* parts it covers are w's, and the file grows to hold them, a part nobody
\* wrote since the last truncation being a hole of zero bytes (0).
WriteAt(chunks, w, parts) ==
    LET last == CHOOSE i \in parts : \A j \in parts : j <= i
        len == IF Len(chunks) > last THEN Len(chunks) ELSE last
    IN [i \in 1..len |-> IF i \in parts THEN w
                         ELSE IF i <= Len(chunks) THEN chunks[i] ELSE 0]

\* The stored file decodes back to the content: it is all there, and under a
\* key it is the sealed data of one worker (encryptData draws a nonce for
\* each call); without a key every worker writes the same bytes.
BlobDecodes(blob, key) ==
    /\ blob.exists
    /\ Len(blob.chunks) = NumChunks
    /\ \A i \in 1..NumChunks : blob.chunks[i] /= 0
    /\ key /= NoKey => \A i \in 1..NumChunks : blob.chunks[i] = blob.chunks[1]

\* A worker that returned from its goroutine on a hashing error.
HaltOnHashError == "halted"

\* Lines 391-394: a hashing error is a warning and the worker goes on to the
\* next path of the channel.
OnHashError == "recv"

\* Everything but the pipeline.
noPipeVars ==
    << links, cfgExclude, cfgBackupDir, published, src, layout, inUse, manifests, tmps,
       blobs, dbFolder, pc, loc, ret, hist, restoreVars >>

\* Lines 374 and 389-396: the walker sends a path on the unbuffered channel
\* and worker w receives it and hashes the file; o is how HashFile ends.
WorkerReceive(w, path, o) ==
    /\ pipe.wk[w].pc = "recv"
    /\ path \in pipe.towalk
    /\ pipe' = [pipe EXCEPT !.towalk = @ \ {path},
                            !.recv = Append(@, path),
                            !.wk[w] = IF o = "ok"
                                      THEN [pc |-> "write", path |-> path,
                                            writes |-> RecordWrites(path), chunks |-> <<>>]
                                      ELSE [IdleWorker EXCEPT !.pc = OnHashError]]
    /\ UNCHANGED noPipeVars

\* Lines 397-404: one write call of worker w on the manifest, opened with
\* O_APPEND (line 316); os.File serializes the writes on one handle, and
\* each lands at the end of the file.
WorkerWrite(w) ==
    /\ pipe.wk[w].pc = "write"
    /\ LET rest == Tail(pipe.wk[w].writes)
       IN pipe' = [pipe EXCEPT !.verFile = @ \o Head(pipe.wk[w].writes),
                               !.wk[w].writes = rest,
                               !.wk[w].pc = IF rest = <<>> THEN "check" ELSE "write"]
    /\ UNCHANGED noPipeVars

\* Lines 407-417: FileExists on the path of the blob.
WorkerExists(w) ==
    /\ pipe.wk[w].pc = "check"
    /\ pipe' = [pipe EXCEPT !.wk[w] = IF pipe.blob.exists
                                      THEN IdleWorker
                                      ELSE [@ EXCEPT !.pc = "create"]]
    /\ UNCHANGED noPipeVars

\* Line 1173: os.Create makes the file, or truncates the one that is there.
WorkerCreate(w) ==
    /\ pipe.wk[w].pc = "create"
    /\ pipe' = [pipe EXCEPT !.blob = [exists |-> TRUE, chunks |-> <<>>],
                            !.wk[w].pc = "copy",
                            !.wk[w].chunks = CopyWrites(pipe.key)]
    /\ UNCHANGED noPipeVars

\* Lines 1179-1221: one write call of the copy of worker w.
WorkerCopy(w) ==
    /\ pipe.wk[w].pc = "copy"
    /\ LET rest == Tail(pipe.wk[w].chunks)
       IN pipe' = [pipe EXCEPT !.blob.chunks = WriteAt(@, w, Head(pipe.wk[w].chunks)),
                               !.wk[w] = IF rest = <<>> THEN IdleWorker
                                         ELSE [@ EXCEPT !.chunks = rest]]
    /\ UNCHANGED noPipeVars

\* Line 382: the walker closes the channel after the last include root.
WalkerClose ==
    /\ pipe.towalk = {}
    /\ pipe.closes = 0
    /\ pipe' = [pipe EXCEPT !.closes = @ + 1]
    /\ UNCHANGED noPipeVars

\* Lines 389 and 420: the range over the closed channel ends, wg.Done().
WorkerExit(w) ==
    /\ pipe.wk[w].pc = "recv"
    /\ pipe.closes > 0
    /\ pipe' = [pipe EXCEPT !.wk[w].pc = "done"]
    /\ UNCHANGED noPipeVars

\* Lines 427-432: wg.Wait() returns, the manifest is closed and renamed.
PipePublish ==
    /\ \A w \in Workers : pipe.wk[w].pc = "done"
    /\ ~pipe.renamed
    /\ pipe' = [pipe EXCEPT !.renamed = TRUE]
    /\ UNCHANGED noPipeVars

(***************************************************************************)
(* Specifications.                                                         *)
(***************************************************************************)
Outcomes == {"ok", "openErr", "hashErr", "writeErr", "copyErr", "partial", "renameErr"}

\* The steps of one Backup call of process p, from the call to its return.
BackupCall(p, keys) ==
    \/ \E key \in keys, cfg \in Configs : BackupEnter(p, key, cfg)
    \/ BackupMark(p)
    \/ BackupReturn(p)

\* The steps of BackupFiles in process p, its I/O ending as one of outcomes.
BackupFilesSteps(p, outcomes) ==
    \/ BFScan(p)
    \/ \E o \in outcomes : BFOpen(p, o)
    \/ \E path \in loc[p].todo, o \in outcomes : BFWorkerRecord(p, path, o)
    \/ \E block \in loc[p].pend, o \in outcomes : BFWorkerAdmit(p, block, o)
    \/ \E o \in outcomes : BFPublish(p, o)

\* One client process calling the package, one call after the other.
Next ==
    \/ BackupCall(1, {NoKey})
    \/ BackupFilesSteps(1, Outcomes)
    \/ \E tv \in TrimValues : Trim(1, tv)
    \/ \E vv \in VerifyValues : Verify(1, vv)
    \/ \E fail \in {NoPath} \cup DOMAIN blobs : Fix(1, fail)
    \/ FixInUse(1)
    \/ ProcessRestart(1)
    \/ Crash(1)
    \/ \E path \in Mutable, c \in Contents : ModifySource(path, c)

Spec == Init /\ [][Next]_vars

\* One process at a time: the command-line entry point, one operation per
\* process, or a client calling Backup.
NextMain ==
    \/ BackupCall(1, {NoKey})
    \/ MainStart(1)
    \/ \E key \in {NoKey} : MainBackupFiles(1, key)
    \/ BackupFilesSteps(1, Outcomes)
    \/ \E tv \in TrimValues, failB \in SUBSET (DOMAIN blobs) : TrimFiles(1, tv, failB)
    \/ \E failV \in SUBSET (DOMAIN manifests) : TrimFilesVersions(1, failV)
    \/ \E fail \in {NoPath} \cup DOMAIN blobs : FixFiles(1, fail)
    \/ FixFileInUse(1)
    \/ \E vv \in VerifyValues : VerifyFiles(1, vv)
    \/ MainEnd(1)
    \/ Crash(1)
    \/ \E path \in Mutable, c \in Contents : ModifySource(path, c)

SpecMain == Init /\ [][NextMain]_vars

\* Several clients calling Backup on the same repository at the same time; no
\* I/O fails but what the other process makes fail.
NextConc ==
    \E p \in Procs :
        \/ BackupCall(p, {NoKey})
        \/ BackupFilesSteps(p, {"ok"})

SpecConc == Init /\ [][NextConc]_vars

\* A client that backs up a tree holding an old restore_state.json, with or
\* without an encryption key, and restores it; the restore can be killed and
\* called again.
InitRestore ==
    /\ src = [path \in { <<"C:", "src", "f1">>, <<"C:", "src", "restore_state.json">> } |->
                IF path[3] = "f1" THEN "abc" ELSE StaleJson]
    /\ cfgKey \in Keys
    /\ links = {}
    /\ cfgExclude = {}
    /\ cfgBackupDir = RepoOutside
    /\ Fresh

NextRestore ==
    \/ BackupCall(1, {cfgKey})
    \/ BackupFilesSteps(1, {"ok"})
    \/ \E version \in 1..MaxVersion, sd \in StageDirs : RestoreEnter(1, version, sd)
    \/ RestoreCopy(1)
    \/ \E ok \in BOOLEAN : RestoreSave(1, ok)
    \/ RestoreExtract(1)
    \/ RestoreClean(1)
    \/ RestoreFinish(1)
    \/ \E torn \in BOOLEAN : RestoreCrash(1, torn)

SpecRestore == InitRestore /\ [][NextRestore]_vars

\* The same client without a key, free to ask for another version after an
\* interrupted restore; it keeps its staging directory.
InitRestoreAny == InitRestore /\ cfgKey = NoKey

NextRestoreAny ==
    \/ BackupCall(1, {cfgKey})
    \/ BackupFilesSteps(1, {"ok"})
    \/ \E version \in 1..MaxVersion, sd \in StageDirs :
           /\ job.active => sd = job.sd
           /\ RestoreBegin(1, version, sd)
    \/ RestoreCopy(1)
    \/ \E ok \in BOOLEAN : RestoreSave(1, ok)
    \/ RestoreExtract(1)
    \/ RestoreClean(1)
    \/ RestoreFinish(1)
    \/ \E torn \in BOOLEAN : RestoreCrash(1, torn)

SpecRestoreAny == InitRestoreAny /\ [][NextRestoreAny]_vars

\* A client whose backups run with no password or one of two, on sources that
\* change between them, and whose restores and command-line verifications run
\* under the password of cfgKey; no I/O fails and nothing is killed.
InitCrypto ==
    /\ src = [path \in { <<"C:", "src", "f1">>, <<"C:", "src", "f2">> } |-> "abc"]
    /\ cfgKey \in Passwords
    /\ links = {}
    /\ cfgExclude = {}
    /\ cfgBackupDir = RepoOutside
    /\ Fresh

NextCrypto ==
    \/ BackupCall(1, Passwords)
    \/ BackupFilesSteps(1, {"ok"})
    \/ \E version \in 1..MaxVersion, sd \in StageDirs : RestoreEnter(1, version, sd)
    \/ RestoreCopy(1)
    \/ \E ok \in BOOLEAN : RestoreSave(1, ok)
    \/ RestoreExtract(1)
    \/ RestoreClean(1)
    \/ RestoreFinish(1)
    \/ MainStart(1)
    \/ \E vv \in VerifyValues : VerifyFiles(1, vv)
    \/ MainEnd(1)
    \/ \E path \in Mutable, c \in Contents : ModifySource(path, c)

SpecCrypto == InitCrypto /\ [][NextCrypto]_vars

\* Source trees under the include root: a directory X with two files and a
\* symbolic link between them in walk order, and a file next to X.
WalkFiles ==
    { <<"C:", "src", "X", "A.TXT">>, <<"C:", "src", "X", "c.txt">>, <<"C:", "src", "f1">> }

WalkLinks == { <<"C:", "src", "X", "b.lnk">> }

\* Exclude entries as a user writes them: a file in lower case for a file in
\* upper case, the reverse, and a directory.
ExcludeEntries ==
    { <<"c:", "src", ".", "x", "a.txt">>, <<"C:", "SRC", "X", "C.TXT">>, <<"C:", "src", "X">> }

\* Backups, without I/O errors, of every such tree under every exclude list.
InitWalk ==
    /\ \E files \in (SUBSET WalkFiles) \ {{}} : src = [path \in files |-> "abc"]
    /\ links \in SUBSET WalkLinks
    /\ cfgExclude \in SUBSET ExcludeEntries
    /\ cfgBackupDir = RepoOutside
    /\ cfgKey = NoKey
    /\ Fresh

NextWalk ==
    \/ BackupCall(1, {NoKey})
    \/ BackupFilesSteps(1, {"ok"})

SpecWalk == InitWalk /\ [][NextWalk]_vars

\* Lines 397 and 407: a worker renders the digest HashFile returned, for the
\* manifest record and the blob path.
WorkerHashToString(p) ==
    /\ pc[p] = "hash"
    /\ loc' = [loc EXCEPT ![p].sFileHash = HashToString(loc[p].hash)]
    /\ pc' = [pc EXCEPT ![p] = "hashed"]
    /\ UNCHANGED << walkVars, published, src, layout, inUse, manifests, tmps, blobs, dbFolder, ret, hist, restoreVars >>

\* A worker of a running Backup holds the digest of a file, any of Digests.
InitDigest ==
    /\ src = [path \in { <<"C:", "src", "f1">> } |-> "abc"]
    /\ cfgKey = NoKey
    /\ links = {}
    /\ cfgExclude = {}
    /\ cfgBackupDir = RepoOutside
    /\ layout = TRUE
    /\ inUse = TRUE
    /\ manifests = EmptyDir
    /\ tmps = EmptyDir
    /\ blobs = EmptyDir
    /\ dbFolder = [p \in Procs |-> IF p = 1 THEN "R" ELSE ""]
    /\ pc = [p \in Procs |-> IF p = 1 THEN "hash" ELSE "idle"]
    /\ \E d \in Digests :
           loc = [p \in Procs |-> IF p = 1 THEN [NoLoc EXCEPT !.ctx = "api", !.hash = d]
                                  ELSE NoLoc]
    /\ ret = [p \in Procs |-> NoRet]
    /\ hist = "clean"
    /\ stage = EmptyDir
    /\ target = EmptyDir
    /\ job = NoJob
    /\ pipe = NoPipe
    /\ published = 0

NextDigest == WorkerHashToString(1)

SpecDigest == InitDigest /\ [][NextDigest]_vars

\* cfg.BackupDir as a user writes it for the repository C:\src\repo: in full,
\* in another case with a "." component, and relative to the working directory.
BackupDirSpellings ==
    { << "C:", "src", "repo" >>, << "c:", "SRC", ".", "repo" >>, << "repo" >> }

\* Backups, without I/O errors, of a source tree that holds the repository.
InitInside ==
    /\ src = [path \in { <<"C:", "src", "f1">> } |-> "abc"]
    /\ cfgKey = NoKey
    /\ links = {}
    /\ cfgExclude = {}
    /\ cfgBackupDir \in BackupDirSpellings
    /\ Fresh

NextInside ==
    \/ BackupCall(1, {NoKey})
    \/ BackupFilesSteps(1, {"ok"})

SpecInside == InitInside /\ [][NextInside]_vars

\* BackupFiles has written the header of the manifest and starts its
\* goroutines, on every tree of WalkFiles and WalkLinks, with and without a key.
InitWorkers ==
    /\ \E files \in (SUBSET WalkFiles) \ {{}} : src = [path \in files |-> "abc"]
    /\ links \in SUBSET WalkLinks
    /\ cfgExclude = {}
    /\ cfgBackupDir = RepoOutside
    /\ cfgKey = NoKey
    /\ layout = TRUE
    /\ inUse = TRUE
    /\ manifests = EmptyDir
    /\ tmps = EmptyDir
    /\ blobs = EmptyDir
    /\ dbFolder = [p \in Procs |-> IF p = 1 THEN "R" ELSE ""]
    /\ pc = [p \in Procs |-> "idle"]
    /\ loc = [p \in Procs |-> NoLoc]
    /\ ret = [p \in Procs |-> NoRet]
    /\ hist = "clean"
    /\ stage = EmptyDir
    /\ target = EmptyDir
    /\ job = NoJob
    /\ \E key \in Keys :
           pipe = [NoPipe EXCEPT !.key = key, !.verFile = HeaderLines, !.towalk = Walked]
    /\ published = 0

NextWorkers ==
    \/ \E w \in Workers, path \in pipe.towalk, o \in {"ok", "hashErr"} :
           WorkerReceive(w, path, o)
    \/ \E w \in Workers : WorkerWrite(w)
    \/ \E w \in Workers : WorkerExists(w)
    \/ \E w \in Workers : WorkerCreate(w)
    \/ \E w \in Workers : WorkerCopy(w)
    \/ WalkerClose
    \/ \E w \in Workers : WorkerExit(w)
    \/ PipePublish

SpecWorkers == InitWorkers /\ [][NextWorkers]_vars

\* The Go scheduler runs every goroutine that can take a step.
SpecWorkersFair == SpecWorkers /\ WF_vars(NextWorkers)

\* Another backup directory of the same client.
RepoElsewhere == << "D:", "other" >>

\* A client process with two backup directories: it backs up to the first and
\* calls Fix and FixInUse with a Config that names either; it can be killed
\* and started again.  Nothing else fails.
NextTwoRepos ==
    \/ cfgBackupDir = RepoOutside /\ BackupCall(1, {NoKey})
    \/ BackupFilesSteps(1, {"ok"})
    \/ Fix(1, NoPath)
    \/ FixInUse(1)
    \/ ProcessRestart(1)
    \/ Crash(1)
    \/ \E dir \in {RepoOutside, RepoElsewhere} : ConfigChange(dir)

SpecTwoRepos == Init /\ [][NextTwoRepos]_vars

(***************************************************************************)
(* Properties.                                                             *)
(***************************************************************************)
AllIdle == \A p \in Procs : pc[p] = "idle"

\* Every HASH: value of every published manifest names a file under Files\.
Referenced(ms, bs) ==
    \A v \in DOMAIN ms : \A h \in HashesOf(ms[v]) : BlobPath(h) \in DOMAIN bs

\* The contents whose digest some published manifest records.
ContentsRecorded(ms) ==
    { c \in Contents : HashToString(HashFile(c)) \in ToKeep(ms) }

\* The processes between writing InUse.txt and returning from Backup.
InsideBackupFiles == { p \in Procs : pc[p] \in {"scan", "open", "work", "ret"} }

\* C1: of the Backup calls running at the same time on one repository, at most
\* one is between acquiring the in-use marker and returning.
C1_AtMostOneInsideBackupFiles == Cardinality(InsideBackupFiles) <= 1

\* C2: between operations that ran to their end (no crash, but possibly with
\* failed blob writes), every HASH value in every published manifest names an
\* existing blob.
C2_ManifestHashesNameBlobs ==
    (AllIdle /\ hist /= "crash") => Referenced(manifests, blobs)

\* C3: after backups without I/O failures on an initially empty repository,
\* the number of blob files equals the number of distinct contents recorded
\* across the manifests, and each of them is stored once, under its digest.
C3_BlobCountIsDistinctContents ==
    (AllIdle /\ hist = "clean") =>
        /\ Cardinality(DOMAIN blobs) = Cardinality(ContentsRecorded(manifests))
        /\ \A c \in ContentsRecorded(manifests) :
               BlobPath(HashToString(HashFile(c))) \in DOMAIN blobs

\* Two fault-free versions, the later one recording a changed file next to an
\* unchanged one whose blob it shares with the earlier version.
C3_SharedBlobAcrossVersions ==
    /\ AllIdle /\ hist = "clean"
    /\ DOMAIN manifests = {1, 2}
    /\ HashesOf(manifests[1]) \cap HashesOf(manifests[2]) /= {}
    /\ HashesOf(manifests[2]) \ HashesOf(manifests[1]) /= {}
    /\ Cardinality(DOMAIN blobs) = 2

\* C4: a Backup call returns nil only if the manifest with the version number
\* it allocated (previous maximum + 1) is published when it returns.
C4_SuccessMeansPublished ==
    [][\A p \in Procs :
          (pc[p] = "ret" /\ pc'[p] = "idle" /\ ret'[p].op = "Backup"
                /\ ret'[p].err = "nil")
              => (loc[p].ver >= 1 /\ loc[p].ver \in DOMAIN manifests')]_vars

\* C5: once Trim(cfg, "N") has returned nil on a repository built without
\* failures, no manifest with a version below N exists and every blob the
\* surviving manifests reference exists.
C5_TrimRemovesOlderVersions ==
    \A p \in Procs :
        (ret[p].op = "Trim" /\ ret[p].err = "nil" /\ ~ret[p].arg.plus /\ hist = "clean")
            => /\ \A v \in DOMAIN manifests : v >= ret[p].arg.n
               /\ Referenced(manifests, blobs)

\* C6: once Verify(cfg, v) has returned nil, every blob that manifest v (the
\* largest version for "0") references is present, readable and has the
\* digest its HASH value states.
C6_VerifySuccessMeansAllMatch ==
    \A p \in Procs :
        (ret[p].op = "Verify" /\ ret[p].err = "nil")
            => LET v == VerifyVersion(ret[p].arg, manifests)
               IN v \in DOMAIN manifests => ~VerifyErrors(manifests[v], blobs)

\* C10: a Backup call made while InUse.txt exists returns an error and leaves
\* the repository as it was: the same directories, manifests, temporary
\* manifests and blobs, and InUse.txt still present.
C10_BusyBackupLeavesRepository ==
    [][\A p \in Procs :
          (pc[p] = "idle" /\ inUse /\ pc'[p] = "idle" /\ src' = src
                /\ ret'[p].op = "Backup")
              => (ret'[p].err /= "nil" /\ repo' = repo)]_vars

\* filepath.Base of a source path, as a path in the restore directory.
BaseName(path) == << path[Len(path)] >>

\* C7: an uninterrupted Restore into an empty directory, of a version that a
\* fault-free Backup made of the source set under the same configuration, has
\* put there, for every source file, a file with its base name and its content.
C7_RestoreReproducesSources ==
    \A p \in Procs :
        (ret[p].op = "Restore" /\ ret[p].err = "nil" /\ ret[p].arg.empty
                /\ hist = "clean")
            => \A path \in DOMAIN src :
                   /\ BaseName(path) \in DOMAIN target
                   /\ target[BaseName(path)] = RawFile(src[path])

\* The restore directory after one Restore that nothing interrupts, into an
\* empty directory: the blocks of the manifest extracted in order, and
\* restore_state.json removed at the end.
RECURSIVE ExtractAll(_, _, _, _, _)
ExtractAll(m, i, bs, key, tgt) ==
    IF i > Len(m) THEN tgt
    ELSE IF IsRec(m[i]) /\ BlobPath(m[i].hash) \in DOMAIN bs
         THEN ExtractAll(m, i + 1, bs, key,
                  Put(tgt, RelPath(m[i].file),
                      ExtractGZipAndDecrypt(bs[BlobPath(m[i].hash)], key).out))
         ELSE ExtractAll(m, i + 1, bs, key, tgt)

RestoreOnce(m, bs, key) == Drop(ExtractAll(m, 1, bs, key, EmptyDir), {StateFile})

\* C8: a Restore into an empty directory that was killed any number of times
\* and called again with the same arguments until it returned leaves the tree
\* one uninterrupted Restore leaves: the same files with the same contents,
\* and no staging file when it stages in the restore directory.
C8_ResumedRestoreSameTree ==
    \A p \in Procs :
        (ret[p].op = "Restore" /\ ret[p].err = "nil" /\ ret[p].arg.empty)
            => /\ target = RestoreOnce(manifests[ret[p].arg.version], blobs, cfgKey)
               /\ ret[p].arg.sd = "T" => stage = EmptyDir

\* The order of the phases.
PhaseRank(phase) ==
    CASE phase = "copying"    -> 1
      [] phase = "extracting" -> 2
      [] phase = "completed"  -> 3
      [] OTHER                -> 0

SeqSet(sq) == { sq[k] : k \in DOMAIN sq }

\* C9: within one restore, however often it is killed and called again, each
\* state written to restore_state.json has a phase not before that of the
\* state written before it, and holds every CopiedFiles and ExtractedFiles
\* entry of it.
C9_PersistedProgressNeverRegresses ==
    [][(job.hw /= NoState /\ job'.hw /= NoState)
          => /\ PhaseRank(job'.hw.phase) >= PhaseRank(job.hw.phase)
             /\ SeqSet(job.hw.copied) \subseteq SeqSet(job'.hw.copied)
             /\ SeqSet(job.hw.extracted) \subseteq SeqSet(job'.hw.extracted)]_vars

\* C11: a Fix or Trim call made while InUse.txt exists aborts with the
\* repository-busy error and deletes no manifest, no temporary manifest and no
\* blob.
C11_BusyFixTrimAborts ==
    [][\A p \in Procs :
          (pc[p] = "idle" /\ inUse /\ pc'[p] = "idle" /\ src' = src
                /\ ret'[p].op \in {"Fix", "Trim"})
              => /\ ret'[p].err = "in use"
                 /\ manifests' = manifests
                 /\ tmps' = tmps
                 /\ blobs' = blobs]_vars

\* C12: every version number a backup publishes is greater than every version
\* number published before it, also after TrimFiles has deleted manifests.
C12_VersionsStrictlyIncrease ==
    [][\A v \in (DOMAIN manifests') \ (DOMAIN manifests) : v > published]_vars

\* The files that have a FILE: record in manifest m.
FilesOf(m) == { m[i].file : i \in { j \in DOMAIN m : IsRec(m[j]) } }

\* C13: when a backup publishes its manifest, a file whose processing failed
\* (hash, record write or blob write) has no record in it and no blob bytes
\* were left for it, and every other walked file has its record.
C13_FailedFileIsSkipped ==
    [][\A p \in Procs :
          (pc[p] = "work" /\ loc[p].ver \in (DOMAIN manifests') \ (DOMAIN manifests))
              => LET m == manifests'[loc[p].ver]
                 IN /\ FilesOf(m) = Walked \ loc[p].failed
                    /\ \A path \in loc[p].failed :
                           LET dst == BlobPath(HashToString(HashFile(src[path])))
                           IN dst \in DOMAIN blobs' => blobs'[dst].whole]_vars

\* C14: a worker that meets a content whose blob path holds a partial file
\* (left by a blob write that failed part-way) writes the blob again, so that
\* the blob is complete once the worker is done with the file.
C14_PartialBlobIsRewritten ==
    [][\A p \in Procs : \A block \in loc[p].pend :
          LET dst == BlobPath(block.hash)
          IN (/\ pc[p] = "work" /\ pc'[p] = "work"
              /\ block \notin loc'[p].pend
              /\ dst \in DOMAIN blobs
              /\ ~blobs[dst].whole)
                 => (dst \in DOMAIN blobs' /\ blobs'[dst].whole)]_vars

\* C15: a manifest v appears only in a step of the backup that allocated v,
\* taken when the walker has handed out every file, every worker is done and
\* the temporary file is closed; while that backup is still at work (where an
\* interruption can hit it) no manifest v exists; and a published manifest is
\* never written again.
C15_PublishAfterPipeline ==
    [][/\ \A v \in (DOMAIN manifests') \ (DOMAIN manifests) :
              \E p \in Procs :
                  /\ pc[p] = "work" /\ loc[p].ver = v
                  /\ loc[p].todo = {} /\ loc[p].pend = {}
                  /\ ~loc'[p].open
       /\ \A p \in Procs :
              pc[p] \in {"open", "work"} => loc[p].ver \notin DOMAIN manifests
       /\ \A v \in (DOMAIN manifests') \cap (DOMAIN manifests) :
              manifests'[v] = manifests[v]]_vars

\* Version 1 is published and a second backup was killed while its workers
\* were writing records: it left 2.tmp and nothing else in Version\.
C15_InterruptedLeavesOnlyTmp ==
    /\ AllIdle /\ hist = "crash"
    /\ DOMAIN manifests = {1}
    /\ DOMAIN tmps = {2}
    /\ Len(tmps[2]) > 1

\* Some blob that manifest m references is sealed under a password other than key.
SealedUnderOtherKey(m, bs, key) ==
    \E h \in HashesOf(m) :
        /\ BlobPath(h) \in DOMAIN bs
        /\ bs[BlobPath(h)].bytes[1] = "gcm"
        /\ bs[BlobPath(h)].bytes[2] /= key

\* C16: a Restore called with one password on a version whose blobs were
\* sealed with another does not return nil.
C16_WrongPasswordFails ==
    \A p \in Procs :
        (ret[p].op = "Restore" /\ ret[p].err = "nil" /\ cfgKey /= NoKey)
            => ~SealedUnderOtherKey(manifests[ret[p].arg.version], blobs, cfgKey)

\* Every blob that manifest m references is stored sealed under key.
AllSealedUnder(m, bs, key) ==
    \A h \in HashesOf(m) :
        /\ BlobPath(h) \in DOMAIN bs
        /\ bs[BlobPath(h)].bytes[1] = "gcm"
        /\ bs[BlobPath(h)].bytes[2] = key

\* The restore directory holds every file manifest m records, with the content
\* whose digest the record states.
Reproduced(m, tgt) ==
    \A i \in { j \in DOMAIN m : IsRec(m[j]) } :
        /\ RelPath(m[i].file) \in DOMAIN tgt
        /\ tgt[RelPath(m[i].file)].whole
        /\ \E c \in Contents :
               /\ HashToString(HashFile(c)) = m[i].hash
               /\ tgt[RelPath(m[i].file)].text = c

\* C17: whatever the repository held before, a backup made with a password
\* publishes a manifest whose blobs are all stored sealed under that password
\* (nonce and sealed gzip data, not a bare gzip stream); and a Restore with the
\* password, into an empty directory, of a version stored so reproduces every
\* file.
C17_EncryptedBackupSealsAllBlobs ==
    [][\A p \in Procs :
          /\ (/\ pc[p] = "work" /\ loc[p].key /= NoKey
              /\ loc[p].ver \in (DOMAIN manifests') \ (DOMAIN manifests))
                 => AllSealedUnder(manifests'[loc[p].ver], blobs', loc[p].key)
          /\ (/\ pc[p] = "rclean2" /\ pc'[p] = "idle" /\ ret'[p].err = "nil"
              /\ job.empty /\ loc[p].key /= NoKey
              /\ AllSealedUnder(manifests[loc[p].ver], blobs, loc[p].key))
                 => Reproduced(manifests[loc[p].ver], target')]_vars

\* Names that differ in letter case only.
FoldClasses ==
    { {"C:", "c:"}, {"SRC", "src"}, {"X", "x"}, {"A.TXT", "a.txt"}, {"C.TXT", "c.txt"} }

SameName(a, b) == a = b \/ \E class \in FoldClasses : a \in class /\ b \in class

\* The path equals the exclude entry ex or lies under it: the components of
\* ex, without ".", are those the path starts with, letter case apart.
LiesUnder(path, ex) ==
    LET e == SelectSeq(ex, LAMBDA name : name /= ".")
    IN /\ Len(e) <= Len(path)
       /\ \A k \in 1..Len(e) : SameName(e[k], path[k])

\* The regular files under the include root that the exclude list does not
\* match: they are no symbolic links, and neither equal an entry nor lie under
\* one.
Eligible ==
    { path \in DOMAIN src :
        IsPrefix(IncludeRoot, path) /\ \A ex \in cfgExclude : ~LiesUnder(path, ex) }

C19_EveryEligibleFileRecorded ==
    \A v \in DOMAIN manifests : Eligible \subseteq FilesOf(manifests[v])

\* C20: when FixFiles has run to its end, every blob that a HASH line of a
\* published manifest names and that was there is still there, unchanged; no
\* file is left under Files\ whose name no manifest references; and no .tmp
\* manifest is left.
C20_FixKeepsLiveRemovesOrphans ==
    [][\A p \in Procs :
          (pc[p] = "main" /\ pc'[p] = "ret" /\ loc'[p].fn = "FixFiles")
              => /\ \A path \in DOMAIN blobs :
                        path[2] \in ToKeep(manifests)
                            => (path \in DOMAIN blobs' /\ blobs'[path] = blobs[path])
                 /\ \A path \in DOMAIN blobs' :
                        \E v \in DOMAIN manifests' : path[2] \in HashesOf(manifests'[v])
                 /\ manifests' = manifests
                 /\ tmps' = EmptyDir]_vars

\* FixFiles has run to its end on a repository that a killed backup left
\* behind: a published version with its blobs, and nothing else.
C20_FixedAfterKilledBackup ==
    \E p \in Procs :
        /\ pc[p] = "ret" /\ loc[p].fn = "FixFiles"
        /\ hist = "crash"
        /\ DOMAIN manifests = {1}
        /\ tmps = EmptyDir
        /\ DOMAIN blobs = { BlobPath(h) : h \in HashesOf(manifests[1]) }
        /\ \E path \in DOMAIN src : HashToString(HashFile(src[path])) \notin HashesOf(manifests[1])

\* C21: a FixInUse call made while InUse.txt exists removes InUse.txt and
\* leaves the directories, every manifest, every temporary manifest and every
\* blob as they were.
C21_FixInUseOnlyRemovesMarker ==
    [][\A p \in Procs :
          (pc[p] = "idle" /\ inUse /\ pc'[p] = "idle" /\ src' = src
                /\ ret'[p].op = "FixInUse")
              => /\ ~inUse'
                 /\ layout' = layout
                 /\ manifests' = manifests
                 /\ tmps' = tmps
                 /\ blobs' = blobs]_vars

\* C22: when TrimFiles has run to its end, whatever earlier backups, trims and
\* interrupted operations left in the repository, every file under Files\ has
\* a digest that some published manifest references.
C22_NoOrphanAfterTrim ==
    [][\A p \in Procs :
          (pc[p] = "trim2" /\ pc'[p] = "ret")
              => \A path \in DOMAIN blobs' :
                     \E v \in DOMAIN manifests' : path[2] \in HashesOf(manifests'[v])]_vars

\* C23: a TrimFiles that runs to its end without a failed deletion has used
\* the cut max(0, vmax - K) for "+K" and N for a bare N, vmax being the largest
\* published version, and has deleted exactly the manifests below the cut; so
\* "+K" leaves the newest version and the K versions before it.
C23_TrimCutVersion ==
    [][\A p \in Procs :
          (pc[p] = "trim2" /\ pc'[p] = "ret" /\ hist' = "clean")
              => LET tv == loc[p].arg
                     vmax == MaxOf(DOMAIN manifests)
                     vcut == IF ~tv.plus THEN tv.n
                             ELSE IF vmax - tv.n > 0 THEN vmax - tv.n ELSE 0
                 IN /\ loc[p].cut = vcut
                    /\ DOMAIN manifests' = { v \in DOMAIN manifests : v >= vcut }
                    /\ \A v \in DOMAIN manifests' : manifests'[v] = manifests[v]
                    /\ tv.plus =>
                           \A v \in DOMAIN manifests :
                               v >= vmax - tv.n => v \in DOMAIN manifests']_vars

\* TrimFiles "+0" has run to its end on versions 1 and 2 and left version 2.
C23_PlusZeroKeepsNewest ==
    \E p \in Procs :
        /\ pc[p] = "ret" /\ loc[p].fn = "TrimFiles"
        /\ loc[p].arg.plus /\ loc[p].arg.n = 0
        /\ loc[p].cut = 2
        /\ DOMAIN manifests = {2}
        /\ hist = "clean"

\* C24: VerifyFiles, run with a key on a version all of whose blobs are stored
\* whole and sealed under that key, reports success.
C24_VerifyWithKeySucceeds ==
    [][\A p \in Procs :
          (/\ pc[p] = "main" /\ loc[p].fn = "none"
           /\ (loc'[p].fn = "VerifyFiles" \/ ret'[p].op = "VerifyFiles")
           /\ cfgKey /= NoKey
           /\ LET vv == IF pc'[p] = "ret" THEN loc'[p].arg ELSE ret'[p].arg
                  v == VerifyVersion(vv, manifests)
              IN /\ vv.valid
                 /\ v \in DOMAIN manifests
                 /\ AllSealedUnder(manifests[v], blobs, cfgKey)
                 /\ \A h \in HashesOf(manifests[v]) : blobs[BlobPath(h)].whole)
              => pc'[p] = "ret"]_vars

\* C25 as stated: when a Backup, a TrimFiles or a FixFiles that ran (it found
\* no InUse.txt) has returned, Version\ holds no .tmp file, whatever
\* stragglers were there when it started.
C25_NoTmpAfterOperation ==
    [][\A p \in Procs :
          (/\ pc[p] = "ret" /\ pc'[p] = "idle"
           /\ ret'[p].op \in {"Backup", "BackupFiles", "TrimFiles", "FixFiles"}
           /\ ret'[p].err = "nil")
              => tmps' = EmptyDir]_vars

\* C25: when a Backup, a TrimFiles or a FixFiles that ran has returned and, if
\* it is a Backup, its clean-up and its rename of <v>.tmp succeeded, Version\
\* holds no .tmp file, whatever stragglers were there when it started.
C25_NoTmpUnlessRenameFailed ==
    [][\A p \in Procs :
          (/\ pc[p] = "ret" /\ pc'[p] = "idle"
           /\ ret'[p].op \in {"Backup", "BackupFiles", "TrimFiles", "FixFiles"}
           /\ ret'[p].err = "nil"
           /\ ~loc[p].err)
              => tmps' = EmptyDir]_vars

\* A TrimFiles or a FixFiles has run to its end after deleting the straggler
\* 1.tmp, and Version\ holds no .tmp file.
C25_StragglerCleaned ==
    \E p \in Procs :
        /\ pc[p] = "ret"
        /\ loc[p].fn \in {"TrimFiles", "FixFiles"}
        /\ loc[p].cleaned = {1}
        /\ tmps = EmptyDir

\* Process p is inside a Backup that has written InUse.txt and not returned.
HoldsMarker(p) == loc[p].ctx = "api" /\ pc[p] \in {"scan", "open", "work", "ret"}

\* C26: a Backup that wrote InUse.txt deletes it on every return path, so when
\* every Backup called so far has returned (none was killed), whether its
\* pipeline succeeded or failed, InUse.txt is absent.
C26_MarkerAbsentAfterBackups ==
    (hist /= "crash" /\ \A p \in Procs : ~HoldsMarker(p)) => ~inUse

\* A Backup whose pipeline failed (the rename of 1.tmp) has returned, and
\* InUse.txt is absent.
C26_FailedBackupReturned ==
    /\ pc[1] = "idle" /\ ret[1].op = "Backup" /\ ret[1].err = "nil"
    /\ hist = "fault"
    /\ 1 \in DOMAIN tmps
    /\ ~inUse

\* C27: no step rewrites a published manifest or modifies a stored blob; a
\* manifest goes only in the version-deleting step of TrimFiles, and a blob
\* only in TrimFiles, FixFiles or Fix.
C27_PublishedNeverRewritten ==
    [][/\ \A v \in DOMAIN manifests \cap DOMAIN manifests' : manifests'[v] = manifests[v]
       /\ \A path \in DOMAIN blobs \cap DOMAIN blobs' : blobs'[path] = blobs[path]
       /\ DOMAIN manifests \ DOMAIN manifests' /= {}
             => \E p \in Procs : pc[p] = "trim2" /\ pc'[p] = "ret"
       /\ DOMAIN blobs \ DOMAIN blobs' /= {}
             => \E p \in Procs :
                    \/ pc[p] = "main" /\ loc'[p].fn \in {"TrimFiles", "FixFiles"}
                    \/ pc[p] = "main" /\ ret'[p].op = "FixFiles"
                    \/ pc[p] = "idle" /\ ret'[p].op = "Fix"]_vars

\* The configuration has no backup directory, no include path, or only
\* include paths that are not on disk.
InvalidConfig(cfg) ==
    \/ cfg.backupDir = ""
    \/ cfg.include = <<>>
    \/ \A i \in DOMAIN cfg.include : ~Stat(cfg.include[i])

\* C28: a Backup called with an empty backupDir, an empty include list or an
\* include list none of whose paths exists returns an error in the same step,
\* having created no directory, no InUse.txt, no manifest and no blob.
C28_InvalidConfigRejected ==
    [][\A p \in Procs :
          LET called == /\ pc[p] = "idle"
                        /\ \/ pc'[p] = "mark"
                           \/ /\ pc'[p] = "idle" /\ ret'[p].op = "Backup"
                              /\ ret'[p].err /= "nil"
              cfg == IF pc'[p] = "mark" THEN loc'[p].arg ELSE ret'[p].arg
          IN (called /\ InvalidConfig(cfg))
                 => /\ pc'[p] = "idle"
                    /\ ret'[p].err \notin {"nil", "in use"}
                    /\ layout' = layout /\ inUse' = inUse
                    /\ manifests' = manifests /\ tmps' = tmps /\ blobs' = blobs]_vars

\* On a repository where nothing was ever created, Backup has returned an
\* error for an include list whose only path is missing, and nothing exists.
C28_MissingIncludeRejected ==
    /\ pc[1] = "idle" /\ ret[1].op = "Backup"
    /\ ret[1].err = "no valid include paths found"
    /\ ret[1].arg.include = << Missing >>
    /\ ~layout /\ ~inUse
    /\ manifests = EmptyDir /\ tmps = EmptyDir /\ blobs = EmptyDir

\* C29: with the repository inside the include root, no manifest that Backup
\* published records a file under the repository directory.
C29_RepositoryFilesNotRecorded ==
    RepoIsInside =>
        \A v \in DOMAIN manifests :
            \A path \in FilesOf(manifests[v]) : ~IsPrefix(RepoInside, path)

\* C30: the rendering of an n-byte digest has 3n characters, and its first two
\* characters name one of the fan-out directories 00 to 25 that layout
\* initialisation creates, so the blob path lies in an existing directory.
C30_BlobPathInFanOut ==
    \A p \in Procs :
        pc[p] = "hashed" =>
            /\ Len(loc[p].sFileHash) = 3 * Len(loc[p].hash)
            /\ \A i \in DOMAIN loc[p].sFileHash : loc[p].sFileHash[i] \in 0..9
            /\ BlobPath(loc[p].sFileHash)[1] \in FanOutDirs
            /\ layout

\* A three-byte digest whose first byte is 255 has been rendered: nine
\* characters, in the directory 25.
C30_LargestFirstByte ==
    /\ pc[1] = "hashed"
    /\ Len(loc[1].hash) = 3 /\ loc[1].hash[1] = 255
    /\ Len(loc[1].sFileHash) = 9
    /\ BlobPath(loc[1].sFileHash)[1] = << 2, 5 >>

\* C31: a Restore unlinks a staging copy only when restore_state.json holds
\* the phase "completed", and when it returns success neither
\* restore_state.json nor the staging copy of any digest in CopiedFiles is left.
C31_CompletedBeforeCleanup ==
    [][\A p \in Procs :
          /\ (pc[p] = "rclean" /\ stage' /= stage)
                => /\ StateFile \in DOMAIN target
                   /\ ~Unmarshal(target[StateFile]).err
                   /\ Unmarshal(target[StateFile]).state.phase = "completed"
          /\ (pc[p] = "rclean2" /\ pc'[p] = "idle" /\ ret'[p].err = "nil")
                => /\ StateFile \notin DOMAIN target'
                   /\ \A k \in DOMAIN loc[p].state.copied :
                          loc[p].state.copied[k] \notin DOMAIN stage']_vars

\* C32: the phase of a restore of version v goes from "copying" to
\* "extracting" only with every digest of manifest v in CopiedFiles, and from
\* "extracting" to "completed" only with every file of manifest v in
\* ExtractedFiles.
C32_PhaseChangeMeansAllDone ==
    [][\A p \in Procs :
          LET before == loc[p].state
              after == loc'[p].state
          IN /\ (before.phase = "copying" /\ after.phase = "extracting")
                   => \A h \in HashesOf(manifests[loc[p].ver]) : InSeq(h, after.copied)
             /\ (before.phase = "extracting" /\ after.phase = "completed")
                   => \A f \in FilesOf(manifests[loc[p].ver]) : InSeq(f, after.extracted)]_vars

\* C33: no step of TrimFiles unlinks or changes a blob that a manifest at or
\* above the cut references, and a TrimFiles in which no deletion failed
\* unlinks exactly the blobs that a manifest below the cut references and no
\* manifest at or above it does.
C33_TrimKeepsReferencedBlobs ==
    [][\A p \in Procs :
          /\ (pc[p] = "main" /\ pc'[p] = "trim2")
                => LET cut == loc'[p].cut
                       kept == UNION { HashesOf(manifests[v]) :
                                          v \in { w \in DOMAIN manifests : w >= cut } }
                       below == UNION { HashesOf(manifests[v]) :
                                           v \in { w \in DOMAIN manifests : w < cut } }
                   IN /\ \A path \in DOMAIN blobs :
                             path[2] \in kept
                                 => path \in DOMAIN blobs' /\ blobs'[path] = blobs[path]
                      /\ hist' = "clean"
                             => DOMAIN blobs \ DOMAIN blobs'
                                    = { path \in DOMAIN blobs : path[2] \in below \ kept }
          /\ (pc[p] = "trim2" /\ pc'[p] = "ret") => blobs' = blobs]_vars

\* TrimFiles with cut 2 has unlinked the blob only version 1 referenced and
\* kept the blob versions 1 and 2 share; the version files are not yet deleted.
C33_SharedBlobKept ==
    \E p \in Procs :
        /\ pc[p] = "trim2" /\ loc[p].cut = 2
        /\ DOMAIN manifests = {1, 2}
        /\ HashesOf(manifests[1]) \cap HashesOf(manifests[2]) /= {}
        /\ HashesOf(manifests[1]) \ HashesOf(manifests[2]) /= {}
        /\ { path[2] : path \in DOMAIN blobs } = HashesOf(manifests[2])
        /\ hist = "clean"

\* The lines of a manifest are the header and then whole records.
WellFormed(lines) ==
    /\ Len(lines) >= 2
    /\ lines[1].kind = "VERSION"
    /\ lines[2].kind = "DATE"
    /\ (Len(lines) - 2) % 4 = 0
    /\ \A k \in 0..((Len(lines) - 2) \div 4 - 1) :
           \E path \in WalkFiles :
               [i \in 1..4 |-> lines[2 + 4 * k + i]] = FileLines(path)

\* C34: in the manifest the workers of one Backup wrote, the VERSION and DATE
\* lines come first and the FILE, MODDATE, SIZE and HASH lines of each file
\* follow one another in that order, the lines of two records never
\* interleaved: while the workers run and when the manifest is renamed.
C34_RecordsContiguous == WellFormed(pipe.verFile)

\* A worker has appended its record while another, that received its path
\* first, is about to append its own.
C34_TwoWorkersWrote ==
    /\ pipe.wk[1].pc = "write"
    /\ pipe.wk[2].pc = "check"
    /\ Len(pipe.recv) = 2
    /\ pipe.recv[1] = pipe.wk[1].path
    /\ Len(pipe.verFile) = 6

\* C35: when workers of one Backup process files of identical content at the
\* same time, then once all of them have finished one blob stands for that
\* content and it decodes back to it, whatever the interleaving of their
\* existence checks, creations and writes; a file whose hashing failed adds
\* no blob.
C35_OneValidBlob ==
    (\A w \in Workers : pipe.wk[w].pc = "done")
        => IF pipe.verFile = HeaderLines
           THEN ~pipe.blob.exists
           ELSE BlobDecodes(pipe.blob, pipe.key)

\* Both workers found the blob missing and created it, the second truncating
\* what the first had written; the finished blob holds a part from each.
C35_BothWorkersCopied ==
    /\ \A w \in Workers : pipe.wk[w].pc = "done"
    /\ pipe.key = NoKey
    /\ pipe.blob.chunks = << 1, 2 >>
    /\ Len(pipe.verFile) = 10

\* The pipeline is over: the channel was closed once, every walked path was
\* received once, every worker has exited and the manifest is renamed.
Drained ==
    /\ pipe.renamed
    /\ pipe.closes = 1
    /\ \A w \in Workers : pipe.wk[w].pc = "done"
    /\ Len(pipe.recv) = Cardinality(Walked)
    /\ \A path \in Walked : \E i \in 1..Len(pipe.recv) : pipe.recv[i] = path

\* C36: every Backup pipeline terminates: the walker closes the channel once
\* and only after its last send, a path is received by one worker only, and
\* in the end every path was received, all workers have exited and the
\* manifest is published; also when every file fails to hash and when the
\* tree holds a symbolic link (to an ancestor directory or anywhere else:
\* the walker never follows one).
C36_PipelineTerminates ==
    /\ [](pipe.closes <= 1 /\ (pipe.closes = 1 => pipe.towalk = {}))
    /\ [](\A i, j \in 1..Len(pipe.recv) : pipe.recv[i] = pipe.recv[j] => i = j)
    /\ <>Drained

\* A pipeline over a tree with a symbolic link ended with a manifest of the
\* header alone: every file it walked failed to hash.
C36_AllHashesFailed ==
    /\ Drained
    /\ links /= {}
    /\ Len(pipe.recv) = 2
    /\ pipe.verFile = HeaderLines

\* The blob of digest h is missing, truncated, or holds other content.
BadBlob(bs, h) ==
    \/ BlobPath(h) \notin DOMAIN bs
    \/ ~bs[BlobPath(h)].whole
    \/ \A c \in Contents \cup {StaleJson, RepoBytes} :
           bs[BlobPath(h)].bytes = Gzip(c) => HashToString(HashFile(c)) /= h

\* C37: VerifyFiles, run on a manifest that exists (for "0" the one of the
\* largest published version, whatever .tmp files are there), ends in failure
\* exactly when some blob a HASH line of that manifest names is missing,
\* unreadable or of another digest: no later line that verifies clears the
\* failure of an earlier one, and no failure keeps a later line from being
\* checked.
C37_VerifyFailsIffSomeBlobBad ==
    [][\A p \in Procs :
          (/\ pc[p] = "main" /\ loc[p].fn = "none"
           /\ (loc'[p].fn = "VerifyFiles" \/ ret'[p].op = "VerifyFiles")
           /\ layout)
              => LET vv == IF pc'[p] = "ret" THEN loc'[p].arg ELSE ret'[p].arg
                     v == IF vv.n = 0 THEN MaxOf(DOMAIN manifests) ELSE vv.n
                 IN (vv.valid /\ v \in DOMAIN manifests)
                        => (pc'[p] = "idle" /\ ret'[p].err = "exit")
                               <=> \E h \in HashesOf(manifests[v]) : BadBlob(blobs, h)]_vars

\* VerifyFiles has failed on "0" with a straggling .tmp of a larger number in
\* Version\: the first record of the newest manifest names a blob that is
\* missing, its last record one that verifies.
C37_FailedOnEarlierLine ==
    \E p \in Procs :
        /\ pc[p] = "idle"
        /\ ret[p].op = "VerifyFiles" /\ ret[p].err = "exit"
        /\ ret[p].arg.valid /\ ret[p].arg.n = 0
        /\ layout
        /\ DOMAIN manifests /= {}
        /\ LET m == manifests[MaxOf(DOMAIN manifests)]
           IN /\ Len(m) = 3
              /\ BadBlob(blobs, m[2].hash)
              /\ ~BadBlob(blobs, m[3].hash)
        /\ \E t \in DOMAIN tmps : t > MaxOf(DOMAIN manifests)

\* C38: Restore(cfg, v, target) works on manifest v only: whatever
\* restore_state.json an interrupted restore of another version left in the
\* target, the state the restore works with records v, so that the copying
\* phase and the extracting phase both read manifest v.
C38_RestoreReadsRequestedVersion ==
    \A p \in Procs :
        pc[p] \in {"rcopy", "save", "rextract", "rclean", "rclean2"}
            => loc[p].state.version = loc[p].ver

\* A step of Fix(cfg) or FixInUse(cfg) in process p.
FixStep(p) ==
    /\ pc[p] = "idle" /\ pc'[p] = "idle"
    /\ cfgBackupDir' = cfgBackupDir
    /\ ret'[p].op \in {"Fix", "FixInUse"}

\* C39: Fix(cfg) and FixInUse(cfg) act on the repository cfg.BackupDir names
\* and on no other, whatever ran before in the process: called with another
\* backup directory than the one the preceding Backup used, they delete
\* nothing in that Backup's repository; called with the directory of the
\* repository, FixInUse leaves no InUse.txt in it and Fix no .tmp manifest,
\* also in a process that ran nothing before.
C39_FixActsOnConfiguredRepository ==
    [][\A p \in Procs :
          FixStep(p)
              => IF cfgBackupDir = RepoOutside
                 THEN /\ ret'[p].op = "FixInUse" => ~inUse'
                      /\ (ret'[p].op = "Fix" /\ layout) => tmps' = EmptyDir
                 ELSE UNCHANGED repo]_vars

\* No entry of the list occurs twice.
NoRepeat(sq) == \A i, j \in DOMAIN sq : sq[i] = sq[j] => i = j

\* C40: while the phase of a restore is "copying" or "extracting", every
\* digest in CopiedFiles has a staging copy that is complete and identical to
\* its blob, every path in ExtractedFiles has a completely written file in
\* the restore directory, and neither list holds an entry twice.
C40_ListsMatchDisk ==
    \A p \in Procs :
        (/\ pc[p] \in {"rcopy", "save", "rextract"}
         /\ loc[p].state.phase \in {"copying", "extracting"})
            => LET st == loc[p].state
               IN /\ NoRepeat(st.copied)
                  /\ NoRepeat(st.extracted)
                  /\ \A k \in DOMAIN st.copied :
                         /\ st.copied[k] \in DOMAIN stage
                         /\ stage[st.copied[k]].whole
                         /\ BlobPath(st.copied[k]) \in DOMAIN blobs
                         /\ stage[st.copied[k]] = blobs[BlobPath(st.copied[k])]
                  /\ \A k \in DOMAIN st.extracted :
                         /\ RelPath(st.extracted[k]) \in DOMAIN target
                         /\ target[RelPath(st.extracted[k])].whole

====
